---- MODULE Spec2Model ----
(***************************************************************************)
(* Verification model of the mtg-scripts ingestion core:                   *)
(*   - mtg_utils/database.py     batch upsert into the cards table         *)
(*   - mtg_utils/performance.py  ConnectionPool, BatchProcessor, retry     *)
(*   - mtg_utils/retry.py        retry decorators and retried statements   *)
(* Each subsystem has its own next-state relation and specification; the   *)
(* variables of the other subsystems stay at their initial values.         *)
(***************************************************************************)
EXTENDS Integers, Sequences, FiniteSets, TLC

VARIABLES
    \* ---- the database file and the script's own connection (database.py)
    dbCards,        \* committed rows of table cards, in rowid order
    connCards,      \* rows as seen by the open connection (uncommitted included)
    cardsCols,      \* live column list of table cards (PRAGMA table_info)
    lastOp,         \* the database.py call that has just run: input and outcome,
                    \* NoOp once its caller has taken the result
    priceTable,     \* the card_prices table exists in the database file
    dbPrices,       \* committed rows of card_prices
    dbOp,           \* the script-level operation that has just run: arguments,
                    \* outcome and the database it started from
    \* ---- ConnectionPool and the threads using it (performance.py)
    pc,             \* per thread: where it is in get_connection
    conn,           \* per thread: the local variable conn of its get_connection
                    \* call (0 is None, also when no call is running)
    exc,            \* per thread: exception in flight / raised by the last call
    handle,         \* per handle: "none" (not created), "open" or "closed"
    pool,           \* ConnectionPool._pool: the idle queue (FIFO)
    created,        \* ConnectionPool._created_connections
    lockHolder,     \* thread holding ConnectionPool._lock, 0 when free
    closing,        \* a close_all() call is in its loop
    \* ---- one call of a function wrapped by retry_on_exception (retry.py)
    rt,             \* the wrapper's frame: function, loop index, counters, outcome
    \* ---- BatchProcessor.process_batches and its worker threads
    txn,            \* the open write transaction on the database file: the
                    \* handle holding the write lock (0: none) and its rows
    cur,            \* per thread: the batch task it is running
    results,        \* per batch: the state and result of its future
    dispatched,     \* number of batch tasks taken up by worker threads
    stats,          \* process_batches' self.stats: processed_items, failed_items
    writes,         \* history of the tasks' writes: the uuids written in the
                    \* open transaction, the batch that committed last, per
                    \* uuid the batch whose write of it was committed last,
                    \* per batch the uuids it has committed
    \* ---- AsyncDatabaseWriter, its writer thread and the threads feeding it
    aw,             \* write_queue, stop_event, the writer thread's position
    \* ---- the functions without state (card_processing.py, io_operations.py)
    call,           \* the call just made: function, argument, result, exception
    \* ---- one DatabaseTransaction block (retry.py, performance.py)
    transaction     \* the object's _in_transaction, the connection's open
                    \* transaction, the block's position and what it raised

priceVars == <<priceTable, dbPrices, dbOp>>

dbVars == <<dbCards, connCards, cardsCols, lastOp, priceVars>>

poolVars == <<pc, conn, exc, handle, pool, created, lockHolder, closing>>

batchVars == <<txn, cur, results, dispatched, stats, writes>>

vars == <<dbVars, poolVars, rt, batchVars, aw, call, transaction>>

(***************************************************************************)
(* Values bound to SQL parameters.                                         *)
(***************************************************************************)
\* Python None, bound as SQL NULL
NULL == "<NULL>"
\* a Python value of a type sqlite3 cannot bind (a list, a dict)
UNSUPPORTED == "<list>"
\* a Python int beyond 64 bits: binding raises OverflowError, not sqlite3.Error
HUGE == "<2**70>"

\* The cards schema, abstracted to its constraint-bearing columns: the primary
\* key, the two NOT NULL columns and one representative of the 28 nullable,
\* unconstrained columns.
CARDS_TABLE_SCHEMA ==
    << [name |-> "uuid",     notnull |-> FALSE],
       [name |-> "name",     notnull |-> TRUE],
       [name |-> "set_code", notnull |-> TRUE],
       [name |-> "text",     notnull |-> FALSE] >>

\* exception classes raised by the sqlite3 module (subclasses of sqlite3.Error)
SqliteErrors == {"ProgrammingError", "IntegrityError", "OperationalError"}

\* ---- bounds of the model
MaxBatch == 3

Uuids == {"u1", "u2"}

\* one row per uuid plus one row whose uuid is NULL
MaxRows == Cardinality(Uuids) + 1

Card(u, n, t) == <<u, n, "SET", t>>

\* tuples that INSERT OR REPLACE accepts; the two for u1 differ in every
\* non-key column that can differ, one of them by a None
GoodRecords == { Card("u1", "A", "t"), Card("u1", "B", NULL), Card("u2", "A", "t") }

\* tuples carrying a defect
MalformedRecords ==
    { <<>>,                          \* empty tuple
      <<"u1", "A", "SET">>,          \* one value short
      Card("u1", NULL, "t"),         \* NOT NULL column is None
      Card("u2", "A", UNSUPPORTED),  \* a field of an unsupported type
      Card("u2", "A", HUGE),         \* an integer field beyond 64 bits
      Card(UNSUPPORTED, "A", "t"),   \* the uuid itself of an unsupported type
      Card(NULL, "A", "t") }         \* uuid None

Records == GoodRecords \cup MalformedRecords

SeqsUpTo(S, n) == UNION { [1..k -> S] : k \in 0..n }

\* the inputs of batch_insert_cards: lists of at most MaxBatch tuples of which
\* at most one is malformed, at any position
Batches ==
    { s \in SeqsUpTo(Records, MaxBatch) :
        Cardinality({ i \in 1..Len(s) : s[i] \in MalformedRecords }) <= 1 }

\* ---- bound: length of the card lists the scripts pass on
MaxScriptBatch == 2

(***************************************************************************)
(* SQLite statements on the cards table (rows in rowid order).             *)
(***************************************************************************)
SelectSeq2(s, Test(_)) == SelectSeq(s, Test)

\* first parameter that cannot be bound, 0 when all can
FirstUnbindable(params) ==
    LET bad == { i \in 1..Len(params) : params[i] \in {UNSUPPORTED, HUGE} }
    IN  IF bad = {} THEN 0 ELSE CHOOSE i \in bad : \A j \in bad : i <= j

\* exception raised by binding the parameters, "none" when they all bind
BindError(params) ==
    LET i == FirstUnbindable(params)
    IN  IF i = 0 THEN "none"
        ELSE IF params[i] = HUGE THEN "OverflowError" ELSE "ProgrammingError"

\* SELECT uuid FROM cards WHERE uuid = ?  : fetchone() is not None
\* (uuid = NULL matches no row)
SelectExisting(rows, uuid) ==
    uuid # NULL /\ \E i \in 1..Len(rows) : rows[i][1] = uuid

\* a field-merging upsert: None in the new tuple keeps the stored value
MergeRow(rows, rec) ==
    LET old == SelectSeq2(rows, LAMBDA r : r[1] = rec[1] /\ rec[1] # NULL)
    IN  IF old = <<>> THEN rec
        ELSE [i \in 1..Len(rec) |-> IF rec[i] = NULL THEN old[1][i] ELSE rec[i]]

InsertOrReplaceMerging(rows, cols, rec) ==
    IF Len(rec) # Len(cols) THEN [exc |-> "ProgrammingError", rows |-> rows]
    ELSE IF BindError(rec) # "none" THEN [exc |-> BindError(rec), rows |-> rows]
    ELSE IF \E i \in 1..Len(cols) : cols[i].notnull /\ rec[i] = NULL
         THEN [exc |-> "IntegrityError", rows |-> rows]
    ELSE [exc |-> "none",
          rows |-> Append(SelectSeq2(rows, LAMBDA r : r[1] = NULL \/ r[1] # rec[1]),
                          MergeRow(rows, rec))]

\* an insert that keeps the row already stored under the key
InsertOrIgnore(rows, cols, rec) ==
    IF Len(rec) # Len(cols) THEN [exc |-> "ProgrammingError", rows |-> rows]
    ELSE IF BindError(rec) # "none" THEN [exc |-> BindError(rec), rows |-> rows]
    ELSE IF \E i \in 1..Len(cols) : cols[i].notnull /\ rec[i] = NULL
         THEN [exc |-> "IntegrityError", rows |-> rows]
    ELSE [exc |-> "none",
          rows |-> IF \E i \in 1..Len(rows) : rows[i][1] = rec[1]
                   THEN rows ELSE Append(rows, rec)]

\* INSERT OR REPLACE INTO cards VALUES (?,...,?) with one placeholder per live
\* column: the number of bindings is checked first, then each value is bound,
\* then the row is written: a row with the same non-NULL primary key is deleted
\* and the new row stored with a fresh rowid.
InsertOrReplace(rows, cols, rec) ==
    IF Len(rec) # Len(cols) THEN [exc |-> "ProgrammingError", rows |-> rows]
    ELSE IF BindError(rec) # "none" THEN [exc |-> BindError(rec), rows |-> rows]
    ELSE IF \E i \in 1..Len(cols) : cols[i].notnull /\ rec[i] = NULL
         THEN [exc |-> "IntegrityError", rows |-> rows]
    ELSE [exc |-> "none",
          rows |-> Append(SelectSeq2(rows, LAMBDA r : r[1] = NULL \/ r[1] # rec[1]),
                          rec)]

(***************************************************************************)
(* database.batch_insert_cards                                             *)
(***************************************************************************)
\* one iteration of the per-record loop: card_data[0], the existence probe
\* (both outside the try), then the INSERT OR REPLACE inside
\* try/except sqlite3.Error.
InsertOne(st, cols, card_data) ==
    IF st.raised # "none" THEN st
    ELSE IF Len(card_data) = 0 THEN [st EXCEPT !.raised = "IndexError"]
    ELSE IF BindError(<<card_data[1]>>) # "none"
         THEN [st EXCEPT !.raised = BindError(<<card_data[1]>>)]
    ELSE LET existing == SelectExisting(st.rows, card_data[1])
             w == InsertOrReplace(st.rows, cols, card_data)
         IN  IF w.exc = "none"
             THEN IF existing THEN [st EXCEPT !.rows = w.rows, !.updated = @ + 1]
                  ELSE [st EXCEPT !.rows = w.rows, !.new = @ + 1]
             ELSE IF w.exc \in SqliteErrors
             THEN [st EXCEPT !.skipped = @ + 1]
             ELSE [st EXCEPT !.raised = w.exc]

RECURSIVE InsertAll(_, _, _, _, _)
\* the loops of batch_insert_cards from record i on: conn.commit() after every
\* batch_size records and after the last one; an exception leaves the loops
\* with the rows written since the last commit uncommitted.
InsertAll(st, cols, cards_data, batch_size, i) ==
    IF i > Len(cards_data) \/ st.raised # "none" THEN st
    ELSE LET s1 == InsertOne(st, cols, cards_data[i])
             s2 == IF s1.raised = "none" /\ (i % batch_size = 0 \/ i = Len(cards_data))
                   THEN [s1 EXCEPT !.committed = s1.rows]
                   ELSE s1
         IN  InsertAll(s2, cols, cards_data, batch_size, i + 1)

\* batch_insert_cards(conn, cards_data, batch_size) on a connection that sees
\* `rows` and a database file holding `committed`
batch_insert_cards(rows, committed, cols, cards_data, batch_size) ==
    InsertAll([rows |-> rows, committed |-> committed, new |-> 0, updated |-> 0,
               skipped |-> 0, raised |-> "none"],
              cols, cards_data, batch_size, 1)

\* constants.DEFAULT_BATCH_SIZE, scaled to the model's batches
DEFAULT_BATCH_SIZE == 2

UuidsOf(rows) == { rows[i][1] : i \in 1..Len(rows) }

NoOp == [op |-> "none", data |-> <<>>, result |-> <<0, 0, 0>>, raised |-> "none",
         before |-> <<>>]

\* the database a script-level operation starts from
Snapshot(cards, cols, hasPrices, prices) ==
    [cards |-> cards, cols |-> cols, priceTable |-> hasPrices, prices |-> prices]

NoDbOp ==
    [op |-> "none", args |-> <<>>, result |-> "none", raised |-> "none",
     statements |-> <<>>, before |-> Snapshot(<<>>, <<>>, FALSE, {})]

(***************************************************************************)
(* performance.ConnectionPool                                              *)
(***************************************************************************)
\* ---- bounds: threads calling get_connection, and the pool's bound
NumThreads == 3
max_connections == 2

Threads == 1..NumThreads
\* identities for the handles that sqlite3.connect may ever return
Handles == 1..(max_connections + NumThreads)

\* handles created and not yet closed, idle or checked out
Live == { h \in Handles : handle[h] = "open" }

\* the idle queue as a set
Idle == { pool[i] : i \in 1..Len(pool) }

InitDb ==
    /\ dbCards = <<>>
    /\ connCards = <<>>
    /\ cardsCols = CARDS_TABLE_SCHEMA
    /\ lastOp = NoOp
    /\ priceTable = FALSE
    /\ dbPrices = {}
    /\ dbOp = NoDbOp

\* ConnectionPool.__init__, no thread inside get_connection
InitPool ==
    /\ pc = [t \in Threads |-> "idle"]
    /\ conn = [t \in Threads |-> 0]
    /\ exc = [t \in Threads |-> "none"]
    /\ handle = [h \in Handles |-> "none"]
    /\ pool = <<>>
    /\ created = 0
    /\ lockHolder = 0
    /\ closing = FALSE

(***************************************************************************)
(* retry.py / performance.py: retry_on_exception and the retried functions *)
(***************************************************************************)
\* ---- bound: the largest max_retries given to a generic wrapped function
MaxRetries == 2

\* @retry_database_operation(max_retries=..) of the three retried functions
ExecuteMaxRetries == 5
CommitMaxRetries == 3
BulkInsertMaxRetries == 3

\* the exception classes involved and their direct base class
BaseClass ==
    [ c \in { "sqlite3.OperationalError", "sqlite3.IntegrityError",
              "sqlite3.ProgrammingError", "sqlite3.Error",
              "RetryableError", "DatabaseConnectionError", "DatabaseError",
              "TypeError", "Exception" } |->
        CASE c \in { "sqlite3.OperationalError", "sqlite3.IntegrityError",
                     "sqlite3.ProgrammingError" } -> "sqlite3.Error"
          [] c = "DatabaseConnectionError" -> "RetryableError"
          [] OTHER -> "Exception" ]

\* isinstance(e, base) for an exception of class c
IsInstance(c, base) ==
    \/ c = base
    \/ BaseClass[c] = base
    \/ BaseClass[BaseClass[c]] = base

\* error messages of sqlite3, as the words of str(e)
LockedMessage == <<"database", "is", "locked">>
TableLockedMessage == <<"database", "table", "is", "locked:", "cards">>
NoTableMessage == <<"no", "such", "table:", "cards">>
UniqueMessage == <<"UNIQUE", "constraint", "failed:", "cards.uuid">>
BindingsMessage == <<"Incorrect", "number", "of", "bindings", "supplied">>

\* str.lower(), word by word
LowerWord(w) ==
    CASE w = "UNIQUE" -> "unique"
      [] w = "Incorrect" -> "incorrect"
      [] OTHER -> w

Lower(msg) == [i \in 1..Len(msg) |-> LowerWord(msg[i])]

\* needle in hay
Contains(hay, needle) ==
    \E k \in 0..(Len(hay) - Len(needle)) :
        \A i \in 1..Len(needle) : hay[k + i] = needle[i]

\* a classification that takes every operational error for a lock
IsLockedAlways(msg) == TRUE

\* "database is locked" in str(e).lower()
IsLocked(msg) == Contains(Lower(msg), LockedMessage)

NoOutcome == [kind |-> "none", cls |-> "none", msg |-> <<>>, at |-> 0]

\* what one invocation of the underlying sqlite3 call (or of a generic
\* function) can do: return, or raise an exception of some class and message
RawOutcomes ==
    { [kind |-> "value", cls |-> "none", msg |-> <<>>, at |-> 0] }
    \cup { [kind |-> "exc", cls |-> "sqlite3.OperationalError", msg |-> m, at |-> 0] :
             m \in {LockedMessage, TableLockedMessage, NoTableMessage} }
    \cup { [kind |-> "exc", cls |-> "sqlite3.IntegrityError",
             msg |-> UniqueMessage, at |-> 0],
           [kind |-> "exc", cls |-> "sqlite3.ProgrammingError",
             msg |-> BindingsMessage, at |-> 0],
           [kind |-> "exc", cls |-> "TypeError",
             msg |-> <<"unsupported", "operand">>, at |-> 0] }
    \cup { [kind |-> "exc", cls |-> c, msg |-> <<"connection", "failed">>, at |-> 0] :
             c \in { "RetryableError", "DatabaseConnectionError" } }

\* cursor.execute, conn.commit and executemany raise sqlite3's exceptions or
\* Python's own, never this package's; a generic function raises anything
RawOutcomesOf(fn) ==
    IF fn = "generic" THEN RawOutcomes
    ELSE { raw \in RawOutcomes :
             raw.cls \notin {"RetryableError", "DatabaseConnectionError"} }

Exc(c, raw) == [raw EXCEPT !.cls = c]

\* body of execute_with_retry and of commit_with_retry: a locked
\* OperationalError becomes RetryableError, every other sqlite3.Error becomes
\* DatabaseError (handle_sqlite_error), anything else passes through
StatementBody(raw) ==
    IF raw.kind = "value" THEN raw
    ELSE IF IsInstance(raw.cls, "sqlite3.OperationalError")
    THEN IF IsLocked(raw.msg) THEN Exc("RetryableError", raw)
         ELSE Exc("DatabaseError", raw)
    ELSE IF IsInstance(raw.cls, "sqlite3.Error") THEN Exc("DatabaseError", raw)
    ELSE raw

\* body of bulk_insert_with_transaction: any sqlite3.Error is rolled back and
\* becomes RetryableError when locked, DatabaseError otherwise
BulkInsertBody(raw) ==
    IF raw.kind = "value" THEN raw
    ELSE IF IsInstance(raw.cls, "sqlite3.Error")
    THEN IF IsLocked(raw.msg) THEN Exc("RetryableError", raw)
         ELSE Exc("DatabaseError", raw)
    ELSE raw

\* the decorated function's own outcome for what the sqlite3 call did
FunctionBody(fn, raw) ==
    CASE fn \in {"execute_with_retry", "commit_with_retry"} -> StatementBody(raw)
      [] fn = "bulk_insert_with_transaction" -> BulkInsertBody(raw)
      [] OTHER -> raw

\* exceptions=(...) of the decorator applied to fn
RetriedExceptions(fn) ==
    IF fn = "generic" THEN {"RetryableError"}
    ELSE {"sqlite3.OperationalError", "DatabaseConnectionError", "RetryableError"}

\* except exceptions as e
Retryable(fn, cls) == \E b \in RetriedExceptions(fn) : IsInstance(cls, b)

RetryIdle ==
    [fn |-> "none", max_retries |-> 0, attempt |-> 0, calls |-> 0, sleeps |-> 0,
     status |-> "idle", outcome |-> NoOutcome, raw |-> NoOutcome]

\* a wrapper that never gives up on a retryable exception
WrapperStepUnbounded(w, raw) ==
    LET o == [FunctionBody(w.fn, raw) EXCEPT !.at = w.calls + 1]
        w1 == [w EXCEPT !.calls = @ + 1, !.raw = [raw EXCEPT !.at = w.calls + 1]]
    IN  IF o.kind = "value" THEN [w1 EXCEPT !.status = "returned", !.outcome = o]
        ELSE IF Retryable(w.fn, o.cls)
        THEN [w1 EXCEPT !.sleeps = @ + 1, !.attempt = @ + 1, !.outcome = o]
        ELSE [w1 EXCEPT !.status = "raised", !.outcome = o]

\* one turn of `for attempt in range(max_retries + 1)` in wrapper: invoke func;
\* return its value; on a retried exception raise it at the last attempt, else
\* sleep and go round; raise any other exception at once.  (attempt <
\* max_retries after a sleep, so the loop never runs out.)
WrapperStep(w, raw) ==
    LET o == [FunctionBody(w.fn, raw) EXCEPT !.at = w.calls + 1]
        w1 == [w EXCEPT !.calls = @ + 1, !.raw = [raw EXCEPT !.at = w.calls + 1]]
    IN  IF o.kind = "value" THEN [w1 EXCEPT !.status = "returned", !.outcome = o]
        ELSE IF Retryable(w.fn, o.cls)
        THEN IF w.attempt >= w.max_retries
             THEN [w1 EXCEPT !.status = "raised", !.outcome = o]
             ELSE [w1 EXCEPT !.sleeps = @ + 1, !.attempt = @ + 1, !.outcome = o]
        ELSE [w1 EXCEPT !.status = "raised", !.outcome = o]

(***************************************************************************)
(* performance.BatchProcessor: the batches and their tasks                 *)
(***************************************************************************)
\* ---- bounds: batches submitted by one process_batches call, and
\* BatchProcessor.batch_size (scaled; larger than DEFAULT_BATCH_SIZE as 5000
\* is larger than 1000)
NumBatches == 2
batch_size == 3
\* ---- bound: BatchProcessor.max_workers, the executor's threads
max_workers == 2

Workers == 1..max_workers

BatchIds == 1..NumBatches

\* the text column of a record tells the batch it was sliced into
BatchTag(b) == <<"b1", "b2", "b3", "b4", "b5", "b6">>[b]

\* the tuples of batch b: well-formed cards, and one from which card_data[0]
\* cannot be read
RecordsOfBatch(b) == { Card(u, "A", BatchTag(b)) : u \in Uuids } \cup { <<>> }

NoTxn == [holder |-> 0, rows |-> <<>>]

\* a worker thread that is not running a task
NoTask ==
    [b |-> 0, len |-> 0, i |-> 0, new |-> 0, updated |-> 0, skipped |-> 0,
     commitDue |-> FALSE, lastError |-> "none", tries |-> 0]

\* a future not yet run: its state, the result or exception it resolves to,
\* the records its task attempted, and whether the as_completed loop has
\* accounted it
Pending ==
    [status |-> "pending", new |-> 0, updated |-> 0, skipped |-> 0, len |-> 0,
     exc |-> "none", attempted |-> 0, accounted |-> FALSE]

\* ProcessingStats(total_items=len(data), ...)
NoStats == [processed_items |-> 0, failed_items |-> 0]

\* no write yet
NoWrites ==
    [open |-> {}, last |-> 0, by |-> [u \in Uuids |-> 0],
     done |-> [b \in BatchIds |-> {}]]

\* process_batches has submitted the batches, no worker has taken one
InitBatch ==
    /\ txn = NoTxn
    /\ cur = [t \in Threads |-> NoTask]
    /\ results = [b \in BatchIds |-> Pending]
    /\ dispatched = 0
    /\ stats = NoStats
    /\ writes = NoWrites

(***************************************************************************)
(* performance.AsyncDatabaseWriter                                         *)
(***************************************************************************)
\* ---- bounds: batches handed to write_batch, and buffer_size (the queue's
\* maxsize)
MaxItems == 3
buffer_size == 2

Items == 1..MaxItems

\* a started writer: start() has cleared stop_event and the thread is about
\* to test it; nothing has been queued
WriterStarted ==
    [write_queue |-> <<>>, stop_event |-> FALSE, pc |-> "loop", item |-> 0,
     attempted |-> {}, put |-> 0, rejected |-> {}, putBeforeStop |-> {},
     processed_items |-> 0, failed_items |-> 0]

InitWriter == aw = WriterStarted

\* no wrapped call is running
InitRetry == rt = RetryIdle

\* no function called yet
NoCall == [fn |-> "none", arg |-> <<>>, result |-> "none", raised |-> "none"]

InitCall == call = NoCall

\* DatabaseTransaction(conn) as __init__ leaves it, on a connection with no
\* open transaction: _in_transaction, conn.in_transaction (open), where the
\* with block is (pc), the statements run, the exception leaving the body
\* (exc), what __exit__ did (committed, rollbacks and whether the last one
\* took effect), the exception that left the block (raised), and what a
\* call of execute after the block did (after)
NoTransaction ==
    [pc |-> "new", in_transaction |-> FALSE, open |-> FALSE, statements |-> 0,
     exc |-> "none", committed |-> FALSE, commitFailed |-> FALSE,
     rollbacks |-> 0, raised |-> "none", after |-> "none"]

InitTransaction == transaction = NoTransaction

Init ==
    /\ InitDb /\ InitPool /\ InitRetry /\ InitBatch /\ InitWriter /\ InitCall
    /\ InitTransaction

\* a call of batch_insert_cards on the script's connection
BatchInsertCards ==
    \E cards_data \in Batches :
        LET r == batch_insert_cards(connCards, dbCards, cardsCols, cards_data,
                                    DEFAULT_BATCH_SIZE)
        IN  /\ lastOp = NoOp
            /\ Len(r.rows) <= MaxRows
            /\ connCards' = r.rows
            /\ dbCards' = r.committed
            /\ lastOp' = [op |-> "batch_insert_cards", data |-> cards_data,
                          result |-> <<r.new, r.updated, r.skipped>>,
                          raised |-> r.raised, before |-> connCards]
            /\ UNCHANGED <<cardsCols, priceVars>>
            /\ UNCHANGED <<poolVars, rt, aw, call, transaction, batchVars>>

\* the connection is closed (uncommitted changes are rolled back) and a new one
\* opened on the same file
Reconnect ==
    /\ lastOp = NoOp
    /\ connCards # dbCards
    /\ connCards' = dbCards
    /\ UNCHANGED <<dbCards, cardsCols, lastOp, priceVars>>
    /\ UNCHANGED <<poolVars, rt, aw, call, transaction, batchVars>>

\* the caller takes the returned counts (or the exception) and goes on
ReturnToCaller ==
    /\ lastOp # NoOp
    /\ lastOp' = NoOp
    /\ UNCHANGED <<dbCards, connCards, cardsCols, priceVars>>
    /\ UNCHANGED <<poolVars, rt, aw, call, transaction, batchVars>>

NextUpsert == BatchInsertCards \/ Reconnect \/ ReturnToCaller

SpecUpsert == Init /\ [][NextUpsert]_vars

(***************************************************************************)
(* Claims on the batch upsert                                              *)
(***************************************************************************)
RowsWithUuid(rows, u) == { i \in 1..Len(rows) : rows[i][1] = u }

\* the record can never be stored: reading its uuid, the probe or the write fails
CannotBeWritten(rec) ==
    \/ Len(rec) = 0
    \/ BindError(<<rec[1]>>) # "none"
    \/ InsertOrReplace(<<>>, cardsCols, rec).exc # "none"

\* C1: idempotent upsert. When batch_insert_cards is called with one
\* well-formed tuple r2 whose uuid already has a row (written by an earlier
\* call from a tuple r1), the call returns (new, updated, skipped) = (0, 1, 0),
\* the table - as seen by the connection and as committed - holds exactly one
\* row with that uuid, and that row equals r2 in every column.
C1_IdempotentUpsert ==
    ( /\ lastOp.op = "batch_insert_cards"
      /\ Len(lastOp.data) = 1
      /\ lastOp.data[1] \in GoodRecords
      /\ RowsWithUuid(lastOp.before, lastOp.data[1][1]) # {} )
    => LET r2 == lastOp.data[1]
       IN  /\ lastOp.raised = "none"
           /\ lastOp.result = <<0, 1, 0>>
           /\ Cardinality(RowsWithUuid(connCards, r2[1])) = 1
           /\ \A i \in RowsWithUuid(connCards, r2[1]) : connCards[i] = r2
           /\ dbCards = connCards

\* C1 witness: the row written from r1 = (u1, A, t) is replaced by
\* r2 = (u1, B, None), which differs from r1 in every non-key column.
C1_Witness ==
    /\ lastOp.op = "batch_insert_cards"
    /\ lastOp.data = << Card("u1", "B", NULL) >>
    /\ \E i \in 1..Len(lastOp.before) : lastOp.before[i] = Card("u1", "A", "t")
    /\ lastOp.result = <<0, 1, 0>>
    /\ \E i \in 1..Len(dbCards) : dbCards[i] = Card("u1", "B", NULL)

\* C2: batch failure isolation. When exactly one record of the list cannot be
\* written, the call does not raise, returns skipped = 1 and
\* new + updated = N - 1, and every other record has its row afterwards.
C2_FailureIsolation ==
    ( /\ lastOp.op = "batch_insert_cards"
      /\ Cardinality({ i \in 1..Len(lastOp.data) : CannotBeWritten(lastOp.data[i]) }) = 1 )
    => /\ lastOp.raised = "none"
       /\ lastOp.result[3] = 1
       /\ lastOp.result[1] + lastOp.result[2] = Len(lastOp.data) - 1
       /\ \A i \in 1..Len(lastOp.data) :
             ~CannotBeWritten(lastOp.data[i])
             => RowsWithUuid(connCards, lastOp.data[i][1]) # {}

(***************************************************************************)
(* ConnectionPool.get_connection, one action per blocking point            *)
(***************************************************************************)
\* the creation test with the bound off by one
UnderLimitOffByOne == created <= max_connections

\* if self._created_connections < self.max_connections
UnderLimit == created < max_connections

\* a get_nowait that hands out the first idle handle and leaves it in the queue
GetNowaitKeeping(t) ==
    /\ pc[t] = "idle"
    /\ exc' = [exc EXCEPT ![t] = "none"]
    /\ IF pool # <<>>
       THEN /\ conn' = [conn EXCEPT ![t] = Head(pool)]
            /\ pc' = [pc EXCEPT ![t] = "body"]
            /\ UNCHANGED pool
       ELSE /\ conn' = [conn EXCEPT ![t] = 0]
            /\ pc' = [pc EXCEPT ![t] = "lock"]
            /\ UNCHANGED pool
    /\ UNCHANGED <<handle, created, lockHolder, closing>>
    /\ UNCHANGED <<dbVars, rt, aw, call, transaction>>

\* entry: self._pool.get_nowait(); on Empty the thread goes for self._lock
GetNowait(t) ==
    /\ pc[t] = "idle"
    /\ exc' = [exc EXCEPT ![t] = "none"]
    /\ IF pool # <<>>
       THEN /\ conn' = [conn EXCEPT ![t] = Head(pool)]
            /\ pool' = Tail(pool)
            /\ pc' = [pc EXCEPT ![t] = "body"]
       ELSE /\ conn' = [conn EXCEPT ![t] = 0]
            /\ pc' = [pc EXCEPT ![t] = "lock"]
            /\ UNCHANGED pool
    /\ UNCHANGED <<handle, created, lockHolder, closing>>
    /\ UNCHANGED <<dbVars, rt, aw, call, transaction>>

\* with self._lock: below the limit a handle is created, counted and yielded
\* (the lock is released on leaving the with block); at the limit the thread
\* enters self._pool.get(timeout=30) still holding the lock
AcquireLock(t) ==
    /\ pc[t] = "lock"
    /\ lockHolder = 0
    /\ IF UnderLimit
       THEN /\ handle' = [handle EXCEPT ![created + 1] = "open"]
            /\ created' = created + 1
            /\ conn' = [conn EXCEPT ![t] = created + 1]
            /\ pc' = [pc EXCEPT ![t] = "body"]
            /\ UNCHANGED lockHolder
       ELSE /\ lockHolder' = t
            /\ pc' = [pc EXCEPT ![t] = "wait"]
            /\ UNCHANGED <<handle, created, conn>>
    /\ UNCHANGED <<exc, pool, closing>>
    /\ UNCHANGED <<dbVars, rt, aw, call, transaction>>

\* _create_connection raises (sqlite3.connect or a pragma fails): nothing is
\* counted, the lock is released, the except clause re-raises with conn None
CreateFails(t) ==
    /\ pc[t] = "lock"
    /\ lockHolder = 0
    /\ UnderLimit
    /\ exc' = [exc EXCEPT ![t] = "OperationalError"]
    /\ pc' = [pc EXCEPT ![t] = "idle"]
    /\ UNCHANGED <<conn, handle, pool, created, lockHolder, closing>>
    /\ UNCHANGED <<dbVars, rt, aw, call, transaction>>

\* self._pool.get(timeout=30) returns a handle that has been put back
TakeWaiting(t) ==
    /\ pc[t] = "wait"
    /\ pool # <<>>
    /\ conn' = [conn EXCEPT ![t] = Head(pool)]
    /\ pool' = Tail(pool)
    /\ lockHolder' = 0
    /\ pc' = [pc EXCEPT ![t] = "body"]
    /\ UNCHANGED <<exc, handle, created, closing>>
    /\ UNCHANGED <<dbVars, rt, aw, call, transaction>>

\* a timeout that leaves the lock held
TimeoutKeepingLock(t) ==
    /\ pc[t] = "wait"
    /\ pool = <<>>
    /\ exc' = [exc EXCEPT ![t] = "Empty"]
    /\ pc' = [pc EXCEPT ![t] = "idle"]
    /\ UNCHANGED <<conn, handle, pool, created, lockHolder, closing>>
    /\ UNCHANGED <<dbVars, rt, aw, call, transaction>>

\* the 30 s elapse with the queue still empty: get raises queue.Empty, the
\* with block releases the lock, the except clause (conn is None) re-raises
Timeout(t) ==
    /\ pc[t] = "wait"
    /\ pool = <<>>
    /\ lockHolder' = 0
    /\ exc' = [exc EXCEPT ![t] = "Empty"]
    /\ pc' = [pc EXCEPT ![t] = "idle"]
    /\ UNCHANGED <<conn, handle, pool, created, closing>>
    /\ UNCHANGED <<dbVars, rt, aw, call, transaction>>

\* the body of the with block ends normally
BodyReturns(t) ==
    /\ pc[t] = "body"
    /\ pc' = [pc EXCEPT ![t] = "exit"]
    /\ UNCHANGED <<conn, exc, handle, pool, created, lockHolder, closing>>
    /\ UNCHANGED <<dbVars, rt, aw, call, transaction>>

\* the body of the with block raises (an Exception subclass): it is thrown
\* into the generator at the yield
BodyRaises(t) ==
    /\ pc[t] = "body"
    /\ \E e \in {"DatabaseError", "ValueError"} : exc' = [exc EXCEPT ![t] = e]
    /\ pc' = [pc EXCEPT ![t] = "exit"]
    /\ UNCHANGED <<conn, handle, pool, created, lockHolder, closing>>
    /\ UNCHANGED <<dbVars, rt, aw, call, transaction>>

\* a release that puts the handle back whatever happened in the body
ReleaseAlwaysReturning(t) ==
    /\ pc[t] = "exit"
    /\ pool' = Append(pool, conn[t])
    /\ conn' = [conn EXCEPT ![t] = 0]
    /\ pc' = [pc EXCEPT ![t] = "idle"]
    /\ UNCHANGED <<exc, handle, created, lockHolder, closing>>
    /\ UNCHANGED <<dbVars, rt, aw, call, transaction>>

\* leaving get_connection after the yield.  except Exception: close the
\* handle and re-raise.  else: put_nowait the handle; queue.Full (the queue
\* holds maxsize = max_connections handles) closes it instead.
Release(t) ==
    /\ pc[t] = "exit"
    /\ IF exc[t] # "none"
       THEN /\ handle' = [handle EXCEPT ![conn[t]] = "closed"]
            /\ UNCHANGED pool
       ELSE IF Len(pool) < max_connections
       THEN /\ pool' = Append(pool, conn[t])
            /\ UNCHANGED handle
       ELSE /\ handle' = [handle EXCEPT ![conn[t]] = "closed"]
            /\ UNCHANGED pool
    /\ conn' = [conn EXCEPT ![t] = 0]
    /\ pc' = [pc EXCEPT ![t] = "idle"]
    /\ UNCHANGED <<exc, created, lockHolder, closing>>
    /\ UNCHANGED <<dbVars, rt, aw, call, transaction>>

\* close_all() is called
CloseAllBegin ==
    /\ ~closing
    /\ closing' = TRUE
    /\ UNCHANGED <<pc, conn, exc, handle, pool, created, lockHolder>>
    /\ UNCHANGED <<dbVars, rt, aw, call, transaction>>

\* one turn of close_all's loop: while not self._pool.empty(): get_nowait()
\* and close; the loop ends when the queue is found empty
CloseAllStep ==
    /\ closing
    /\ IF pool = <<>>
       THEN /\ closing' = FALSE
            /\ UNCHANGED <<handle, pool>>
       ELSE /\ handle' = [handle EXCEPT ![Head(pool)] = "closed"]
            /\ pool' = Tail(pool)
            /\ UNCHANGED closing
    /\ UNCHANGED <<pc, conn, exc, created, lockHolder>>
    /\ UNCHANGED <<dbVars, rt, aw, call, transaction>>

\* the pool used on its own: no batch task is involved
NextPool ==
    \/ \E t \in Threads :
          \/ GetNowait(t) /\ UNCHANGED batchVars
          \/ AcquireLock(t) /\ UNCHANGED batchVars
          \/ CreateFails(t) /\ UNCHANGED batchVars
          \/ TakeWaiting(t) /\ UNCHANGED batchVars
          \/ Timeout(t) /\ UNCHANGED batchVars
          \/ BodyReturns(t) /\ UNCHANGED batchVars
          \/ BodyRaises(t) /\ UNCHANGED batchVars
          \/ Release(t) /\ UNCHANGED batchVars
    \/ CloseAllBegin /\ UNCHANGED batchVars
    \/ CloseAllStep /\ UNCHANGED batchVars

SpecPool == Init /\ [][NextPool]_vars

(***************************************************************************)
(* Claims on the connection pool                                           *)
(***************************************************************************)
CheckedOut == { t \in Threads : pc[t] \in {"body", "exit"} }

\* C3: pool bound. In every reachable state the number of live handles
\* (created and not yet closed, idle or checked out) is at most
\* max_connections.
C3_PoolBound == Cardinality(Live) <= max_connections

\* C3 witness: the pool is saturated - max_connections live handles, all
\* checked out - while a further caller is blocked in the timed get.
C3_Witness ==
    /\ Cardinality(Live) = max_connections
    /\ Cardinality(CheckedOut) = max_connections
    /\ \E t \in Threads : pc[t] = "wait"

\* C4: acquisition below the bound. A get_connection call that reaches its
\* decision under the lock while no idle handle exists and fewer than
\* max_connections handles are live creates a new handle and yields it; it
\* does not enter the timed wait.
C4_AcquireBelowBound ==
    [][\A t \in Threads :
         ( /\ pc[t] = "lock"
           /\ pc'[t] \in {"body", "wait"}
           /\ pool = <<>>
           /\ Cardinality(Live) < max_connections )
         => /\ pc'[t] = "body"
            /\ handle[conn'[t]] = "none"
            /\ handle'[conn'[t]] = "open"]_vars

\* C5: release policy. On every exit from a get_connection block: if the
\* body did not raise, the handle is appended to the idle queue, still open;
\* if the body raised, the handle is closed, is not in the idle queue, and the
\* same exception is the one the caller gets. No closed handle is ever idle.
C5_ReleasePolicy ==
    /\ [](\A i \in 1..Len(pool) : handle[pool[i]] = "open")
    /\ [][\A t \in Threads :
            (pc[t] = "exit" /\ pc'[t] = "idle")
            => IF exc[t] = "none"
               THEN /\ pool' = Append(pool, conn[t])
                    /\ handle'[conn[t]] = "open"
                    /\ exc'[t] = "none"
               ELSE /\ handle'[conn[t]] = "closed"
                    /\ \A i \in 1..Len(pool') : pool'[i] # conn[t]
                    /\ exc'[t] = exc[t]]_vars

\* C5 witness: one caller has left its block with the exception its body
\* raised and its handle closed, while another handle, released normally,
\* sits open in the idle queue.
C5_Witness ==
    \E t \in Threads :
        /\ pc[t] = "idle"
        /\ exc[t] = "DatabaseError"
        /\ \E h \in Handles : handle[h] = "closed"
        /\ pool # <<>>
        /\ handle[Head(pool)] = "open"

(***************************************************************************)
(* The pool under fair scheduling: a thread blocked in the timed get leaves *)
(* it (a handle arrives or the 30 s elapse), and a thread blocked on the    *)
(* lock gets it once it is free often enough.                               *)
(***************************************************************************)
FairPool ==
    \A t \in Threads :
        /\ WF_vars((TakeWaiting(t) \/ Timeout(t)) /\ UNCHANGED batchVars)
        /\ SF_vars(AcquireLock(t) /\ UNCHANGED batchVars)

SpecPoolFair == Init /\ [][NextPool]_vars /\ FairPool

\* every live handle is checked out: none is idle, max_connections are live
Saturated == pool = <<>> /\ Cardinality(Live) = max_connections

Blocked(t) == pc[t] \in {"lock", "wait"}

\* a further call on a saturated pool blocks: it neither gets a handle nor fails
C6_Blocks ==
    [][\A t \in Threads :
         (Saturated /\ pc[t] \in {"idle", "lock"} /\ pc'[t] # pc[t])
         => pc'[t] \in {"lock", "wait"}]_vars

\* a waiter that ends its wait with a handle got the one at the head of the
\* idle queue, open, and gave up the lock
C6_WaiterGetsReleased ==
    [][\A t \in Threads :
         (pc[t] = "wait" /\ pc'[t] = "body")
         => /\ pool # <<>>
            /\ conn'[t] = Head(pool)
            /\ handle'[conn'[t]] = "open"
            /\ lockHolder' = 0]_vars

\* a waiter whose wait ends without a handle ends with queue.Empty, the idle
\* queue having been empty, and gives up the lock
C6_TimeoutFails ==
    [][\A t \in Threads :
         (pc[t] = "wait" /\ pc'[t] # "wait" /\ pc'[t] # "body")
         => /\ pc'[t] = "idle"
            /\ exc'[t] = "Empty"
            /\ pool = <<>>
            /\ lockHolder' = 0]_vars

\* no call stays blocked for ever
C6_NoWaitForever == \A t \in Threads : Blocked(t) ~> ~Blocked(t)

\* whenever a handle leaves the idle queue while a caller is blocked in the
\* timed get, it is that caller who receives it
C6_OnlyWaiterTakes ==
    [][((\E t \in Threads : pc[t] = "wait") /\ pool # <<>> /\ pool' = Tail(pool))
       => \E t \in Threads :
             pc[t] = "wait" /\ pc'[t] = "body" /\ conn'[t] = Head(pool)]_vars

\* a handle that leaves the idle queue while a caller is blocked in the timed
\* get goes to that caller, or to a caller that was not waiting and found it
\* with get_nowait, or is closed by close_all
C6_WaiterOrNewcomerTakes ==
    [][((\E t \in Threads : pc[t] = "wait") /\ pool # <<>> /\ pool' = Tail(pool))
       => \/ \E t \in Threads :
                pc[t] = "wait" /\ pc'[t] = "body" /\ conn'[t] = Head(pool)
          \/ \E t \in Threads :
                pc[t] = "idle" /\ pc'[t] = "body" /\ conn'[t] = Head(pool)
          \/ closing /\ handle'[Head(pool)] = "closed"]_vars

CallWrapped ==
    /\ rt.status = "idle"
    /\ \E fn \in {"generic", "execute_with_retry", "commit_with_retry",
                  "bulk_insert_with_transaction"} :
       \E n \in 0..MaxRetries :
          rt' = [RetryIdle EXCEPT
                   !.fn = fn, !.status = "running",
                   !.max_retries =
                       CASE fn = "execute_with_retry" -> ExecuteMaxRetries
                         [] fn = "commit_with_retry" -> CommitMaxRetries
                         [] fn = "bulk_insert_with_transaction" -> BulkInsertMaxRetries
                         [] OTHER -> n]
    /\ UNCHANGED <<dbVars, poolVars, batchVars, aw, call, transaction>>

\* one turn of the wrapper's loop, the underlying call doing any of RawOutcomes
Invoke ==
    /\ rt.status = "running"
    /\ \E raw \in RawOutcomesOf(rt.fn) : rt' = WrapperStep(rt, raw)
    /\ UNCHANGED <<dbVars, poolVars, batchVars, aw, call, transaction>>

\* the caller has the value or the exception
WrapperDone ==
    /\ rt.status \in {"returned", "raised"}
    /\ rt' = RetryIdle
    /\ UNCHANGED <<dbVars, poolVars, batchVars, aw, call, transaction>>

NextRetry == CallWrapped \/ Invoke \/ WrapperDone

\* a running wrapper takes its next turn: func returns or raises, sleep ends
SpecRetry == Init /\ [][NextRetry]_vars /\ WF_vars(Invoke)

(***************************************************************************)
(* retry.py / performance.py: DatabaseTransaction (the two classes are the *)
(* same, statement for statement)                                          *)
(***************************************************************************)
\* ---- bound: statements run by one with block
MaxStatements == 2

\* conn.execute("BEGIN") returns, or raises sqlite3.OperationalError; it
\* always raises when the connection has a transaction open
BeginOutcomes(open) ==
    IF open THEN {"sqlite3.OperationalError"} ELSE {"none", "sqlite3.OperationalError"}

\* conn.rollback() returns, or raises sqlite3.OperationalError
RollbackOutcomes == {"none", "sqlite3.OperationalError"}

\* exceptions the statements of a with block raise by themselves
BodyExceptions == {"TypeError", "sqlite3.IntegrityError"}

\* an __exit__ whose handler catches every exception of the cleanup
CleanupCatchesAll(cls) == TRUE

\* except sqlite3.Error as e, around the commit or rollback of __exit__
CleanupCatches(cls) == IsInstance(cls, "sqlite3.Error")

\* __enter__: BEGIN, then _in_transaction = True; a sqlite3.Error is raised
\* as handle_sqlite_error(e), a DatabaseError, and the block is not entered
TransactionEnter(tx, begin) ==
    IF begin = "none"
    THEN [tx EXCEPT !.pc = "body", !.in_transaction = TRUE, !.open = TRUE]
    ELSE IF IsInstance(begin, "sqlite3.Error")
    THEN [tx EXCEPT !.pc = "not entered", !.raised = "DatabaseError"]
    ELSE [tx EXCEPT !.pc = "not entered", !.raised = begin]

\* self.conn.rollback() of __exit__, and the second one of the handler when
\* the first raised and the handler caught it (its own failure is ignored)
CleanupRollback(tx, first, second) ==
    IF first = "none"
    THEN [tx EXCEPT !.rollbacks = @ + 1, !.open = FALSE]
    ELSE IF CleanupCatches(first)
    THEN [tx EXCEPT !.rollbacks = @ + 2, !.open = (second # "none")]
    ELSE [tx EXCEPT !.rollbacks = @ + 1, !.raised = first]

\* __exit__(exc_type, ..) once commit_with_retry, if it was called, has ended
\* with the outcome commit: nothing to do outside a transaction; a commit
\* that returned ends the connection's transaction; an exception of the
\* commit that the handler catches is logged, the transaction rolled back
\* and the block left without exception; any other exception of the commit
\* leaves __exit__; with exc_type the transaction is rolled back and, as
\* __exit__ returns False, the body's exception goes on.  finally:
\* _in_transaction = False
TransactionExit(tx, commit, first, second) ==
    IF ~tx.in_transaction THEN [tx EXCEPT !.pc = "left", !.raised = tx.exc]
    ELSE
    LET done ==
          IF tx.exc = "none"
          THEN IF commit.kind = "value"
               THEN [tx EXCEPT !.committed = TRUE, !.open = FALSE]
               ELSE IF CleanupCatches(commit.cls)
               THEN CleanupRollback([tx EXCEPT !.commitFailed = TRUE], "none", second)
               ELSE [tx EXCEPT !.commitFailed = TRUE, !.raised = commit.cls]
          ELSE [CleanupRollback(tx, first, second) EXCEPT !.raised = tx.exc]
    IN  [done EXCEPT !.pc = "left", !.in_transaction = FALSE]

\* execute(query, params): DatabaseError outside a transaction, else
\* execute_with_retry
ExecuteRefused(tx) == ~tx.in_transaction

\* with DatabaseTransaction(conn) as tx: __enter__
Enter ==
    /\ transaction.pc = "new"
    /\ \E begin \in BeginOutcomes(transaction.open) :
          transaction' = TransactionEnter(transaction, begin)
    /\ UNCHANGED <<dbVars, poolVars, rt, batchVars, aw, call>>

\* the body calls tx.execute(..): execute_with_retry starts
BodyExecute ==
    /\ transaction.pc = "body"
    /\ transaction.statements < MaxStatements
    /\ ~ExecuteRefused(transaction)
    /\ rt.status = "idle"
    /\ rt' = [RetryIdle EXCEPT !.fn = "execute_with_retry", !.status = "running",
                               !.max_retries = ExecuteMaxRetries]
    /\ transaction' = [transaction EXCEPT !.pc = "execute", !.statements = @ + 1]
    /\ UNCHANGED <<dbVars, poolVars, batchVars, aw, call>>

\* execute_with_retry has ended: the body goes on, or the exception leaves it
ExecuteDone ==
    /\ transaction.pc = "execute"
    /\ rt.status \in {"returned", "raised"}
    /\ transaction' =
          IF rt.status = "returned" THEN [transaction EXCEPT !.pc = "body"]
          ELSE [transaction EXCEPT !.pc = "exit", !.exc = rt.outcome.cls]
    /\ rt' = RetryIdle
    /\ UNCHANGED <<dbVars, poolVars, batchVars, aw, call>>

\* a statement of the body raises
BodyFails ==
    /\ transaction.pc = "body"
    /\ \E e \in BodyExceptions :
          transaction' = [transaction EXCEPT !.pc = "exit", !.exc = e]
    /\ UNCHANGED <<dbVars, poolVars, rt, batchVars, aw, call>>

\* the body runs to its end
BodyEnds ==
    /\ transaction.pc = "body"
    /\ transaction' = [transaction EXCEPT !.pc = "exit"]
    /\ UNCHANGED <<dbVars, poolVars, rt, batchVars, aw, call>>

\* __exit__ without exception: commit_with_retry(self.conn) starts
ExitCommit ==
    /\ transaction.pc = "exit"
    /\ transaction.exc = "none"
    /\ transaction.in_transaction
    /\ rt.status = "idle"
    /\ rt' = [RetryIdle EXCEPT !.fn = "commit_with_retry", !.status = "running",
                               !.max_retries = CommitMaxRetries]
    /\ transaction' = [transaction EXCEPT !.pc = "commit"]
    /\ UNCHANGED <<dbVars, poolVars, batchVars, aw, call>>

\* commit_with_retry has ended: the rest of __exit__
ExitAfterCommit ==
    /\ transaction.pc = "commit"
    /\ rt.status \in {"returned", "raised"}
    /\ \E second \in RollbackOutcomes :
          transaction' = TransactionExit(transaction, rt.outcome, "none", second)
    /\ rt' = RetryIdle
    /\ UNCHANGED <<dbVars, poolVars, batchVars, aw, call>>

\* __exit__ with the body's exception
ExitRollback ==
    /\ transaction.pc = "exit"
    /\ transaction.exc # "none"
    /\ \E first \in RollbackOutcomes, second \in RollbackOutcomes :
          transaction' = TransactionExit(transaction, NoOutcome, first, second)
    /\ UNCHANGED <<dbVars, poolVars, rt, batchVars, aw, call>>

\* tx.execute(..) after the block
ExecuteAfterExit ==
    /\ transaction.pc = "left"
    /\ transaction.after = "none"
    /\ transaction' =
          [transaction EXCEPT
             !.after = IF ExecuteRefused(transaction) THEN "DatabaseError" ELSE "ran"]
    /\ UNCHANGED <<dbVars, poolVars, rt, batchVars, aw, call>>

\* the caller makes its next DatabaseTransaction on the same connection
NextBlock ==
    /\ transaction.pc \in {"left", "not entered"}
    /\ transaction' = [NoTransaction EXCEPT !.open = transaction.open]
    /\ UNCHANGED <<dbVars, poolVars, rt, batchVars, aw, call>>

NextTransaction ==
    \/ Enter
    \/ BodyExecute
    \/ Invoke
    \/ ExecuteDone
    \/ BodyFails
    \/ BodyEnds
    \/ ExitCommit
    \/ ExitAfterCommit
    \/ ExitRollback
    \/ ExecuteAfterExit
    \/ NextBlock

SpecTransaction == Init /\ [][NextTransaction]_vars

\* the block has been left through __exit__
BlockLeft == transaction.pc = "left"

\* C36: a DatabaseTransaction block never leaves its transaction open: left
\* without an exception it is committed; left with an exception it is rolled
\* back and the exception goes on to the caller; when the commit of __exit__
\* fails, the transaction is rolled back and the failure goes on to the
\* caller; after every exit _in_transaction is false and execute raises
\* DatabaseError.  (Rolled back: conn.rollback() was called.)
C36_TransactionNeverLeftOpen ==
    BlockLeft =>
        /\ ~transaction.in_transaction
        /\ transaction.after \in {"none", "DatabaseError"}
        /\ transaction.committed \/ transaction.rollbacks >= 1
        /\ (transaction.exc = "none" /\ ~transaction.commitFailed) =>
              /\ transaction.committed /\ ~transaction.open
              /\ transaction.raised = "none"
        /\ transaction.exc # "none" =>
              /\ transaction.rollbacks >= 1 /\ ~transaction.committed
              /\ transaction.raised = transaction.exc
        /\ transaction.commitFailed =>
              /\ transaction.rollbacks >= 1
              /\ transaction.raised # "none"

(***************************************************************************)
(* Retry claims                                                            *)
(***************************************************************************)
\* the wrapper has handed the caller the outcome of its last invocation of func
LastInvocationPropagates ==
    /\ rt.outcome.at = rt.calls
    /\ rt.outcome.kind = rt.raw.kind
    /\ rt.outcome.msg = rt.raw.msg
    /\ rt.fn = "generic" => rt.outcome.cls = rt.raw.cls

C8_AtMostNPlusOne == rt.calls <= rt.max_retries + 1

C8_ReturnEndsCall ==
    /\ rt.status = "returned" => rt.outcome.kind = "value" /\ LastInvocationPropagates
    /\ rt.status # "idle" /\ rt.raw.kind = "value" => rt.status = "returned"

C8_ExhaustedPropagatesLast ==
    rt.status # "idle" /\ rt.calls = rt.max_retries + 1
    /\ rt.outcome.kind = "exc" /\ Retryable(rt.fn, rt.outcome.cls)
        => rt.status = "raised" /\ LastInvocationPropagates

C8_Terminates == (rt.status = "running") ~> (rt.status \in {"returned", "raised"})

\* C8: a call of a function wrapped with max_retries = n invokes it at most
\* n + 1 times; an invocation that returns ends the call with its value and
\* nothing is invoked after it; when the (n + 1)-th invocation raises a
\* retryable exception that exception reaches the caller; the call terminates.
C8_BoundedRetry ==
    /\ [](C8_AtMostNPlusOne /\ C8_ReturnEndsCall /\ C8_ExhaustedPropagatesLast)
    /\ [][rt.status = "returned" => rt' = RetryIdle]_vars
    /\ C8_Terminates

\* all n + 1 invocations of a function wrapped with n = MaxRetries raised a
\* retryable exception and the last one reached the caller
C8_Witness ==
    /\ rt.fn = "generic" /\ rt.max_retries = MaxRetries
    /\ rt.calls = MaxRetries + 1 /\ rt.sleeps = MaxRetries
    /\ rt.status = "raised" /\ rt.outcome.cls = "DatabaseConnectionError"

RetriedFunctions ==
    {"execute_with_retry", "commit_with_retry", "bulk_insert_with_transaction"}

\* the message of the failure contains 'database is locked'
ContainsDatabaseIsLocked(msg) ==
    \E k \in 0..(Len(msg) - 3) :
        msg[k + 1] = "database" /\ msg[k + 2] = "is" /\ msg[k + 3] = "locked"

\* the last invocation failed with a database error that is not a lock
OtherDatabaseError ==
    /\ rt.raw.kind = "exc"
    /\ rt.raw.cls \in {"sqlite3.OperationalError", "sqlite3.IntegrityError",
                       "sqlite3.ProgrammingError", "sqlite3.Error"}
    /\ ~ContainsDatabaseIsLocked(rt.raw.msg)

\* C9: in the three retried functions another attempt follows only a failure
\* whose message contains 'database is locked'; any other database error
\* reaches the caller as a DatabaseError from the attempt that met it, with no
\* retry and no delay after it (one attempt and no delay when it is the first).
C9_RetryClassification ==
    rt.fn \in RetriedFunctions /\ rt.calls > 0 =>
        /\ rt.status = "running" =>
              rt.raw.kind = "exc" /\ ContainsDatabaseIsLocked(rt.raw.msg)
        /\ rt.sleeps > 0 /\ rt.calls = 1 => ContainsDatabaseIsLocked(rt.raw.msg)
        /\ OtherDatabaseError =>
              /\ rt.status = "raised"
              /\ rt.outcome.cls = "DatabaseError"
              /\ rt.outcome.at = rt.calls
              /\ rt.sleeps = rt.calls - 1

\* commit_with_retry met a locked database, slept, and then a missing table:
\* DatabaseError after the second attempt, one delay in all
C9_Witness ==
    /\ rt.fn = "commit_with_retry" /\ rt.status = "raised"
    /\ rt.calls = 2 /\ rt.sleeps = 1
    /\ rt.raw.cls = "sqlite3.OperationalError" /\ rt.raw.msg = NoTableMessage
    /\ rt.outcome.cls = "DatabaseError"

(***************************************************************************)
(* BatchProcessor._process_single_batch on the executor's worker threads,  *)
(* with process_func = batch_insert_cards(conn, batch) as in mtg_cli       *)
(***************************************************************************)
\* the rows a statement on handle h reads: its own open transaction, else the
\* committed table (WAL: readers are never blocked)
ViewOf(h) == IF txn.holder = h THEN txn.rows ELSE dbCards

\* another connection holds the write lock
LockedOut(h) == txn.holder \notin {0, h}

\* a commit is due after every DEFAULT_BATCH_SIZE records and after the last
CommitDueAfter(i, len) == i % DEFAULT_BATCH_SIZE = 0 \/ i = len

\* the future of the task on thread t is resolved and the thread is free
TaskEnds(t, status) ==
    /\ results' = [results EXCEPT ![cur[t].b] =
                     [status |-> status, new |-> cur[t].new,
                      updated |-> cur[t].updated, skipped |-> cur[t].skipped,
                      len |-> cur[t].len, exc |-> exc'[t],
                      attempted |-> cur[t].i, accounted |-> FALSE]]
    /\ cur' = [cur EXCEPT ![t] = NoTask]

\* a free worker thread takes the next batch (every batch but the last holds
\* batch_size records) and enters get_connection
StartTask(t) ==
    /\ cur[t].b = 0
    /\ dispatched < NumBatches
    /\ GetNowait(t)
    /\ dispatched' = dispatched + 1
    /\ \E n \in 1..batch_size :
          /\ dispatched + 1 < NumBatches => n = batch_size
          /\ cur' = [cur EXCEPT ![t] = [NoTask EXCEPT !.b = dispatched + 1, !.len = n]]
    /\ results' = [results EXCEPT ![dispatched + 1].status = "running"]
    /\ UNCHANGED <<txn, stats, writes>>

\* the task goes on inside get_connection
TaskAcquires(t) ==
    /\ cur[t].b # 0
    /\ AcquireLock(t) \/ TakeWaiting(t)
    /\ UNCHANGED batchVars

\* get_connection raises before yielding: the exception leaves the task
TaskAcquireFails(t) ==
    /\ cur[t].b # 0
    /\ Timeout(t) \/ CreateFails(t)
    /\ TaskEnds(t, "raised")
    /\ UNCHANGED <<txn, dispatched, stats, writes>>

\* one iteration of the record loop while no other connection holds the write
\* lock: the probe and the INSERT OR REPLACE run at once
InsertRecord(t) ==
    /\ cur[t].b # 0 /\ pc[t] = "body"
    /\ ~cur[t].commitDue /\ cur[t].i < cur[t].len
    /\ \E card_data \in RecordsOfBatch(cur[t].b) :
          LET c == cur[t]
              st == InsertOne([rows |-> ViewOf(conn[t]), committed |-> dbCards,
                               new |-> c.new, updated |-> c.updated,
                               skipped |-> c.skipped, raised |-> "none"],
                              cardsCols, card_data)
          IN  /\ st.raised # "none" \/ ~LockedOut(conn[t])
              /\ IF st.raised # "none"
                 THEN /\ exc' = [exc EXCEPT ![t] = st.raised]
                      /\ pc' = [pc EXCEPT ![t] = "exit"]
                      /\ UNCHANGED <<cur, txn, writes>>
                 ELSE /\ cur' = [cur EXCEPT ![t] =
                                   [c EXCEPT !.i = @ + 1, !.new = st.new,
                                             !.updated = st.updated,
                                             !.skipped = st.skipped,
                                             !.commitDue = CommitDueAfter(c.i + 1, c.len),
                                             !.lastError = "none", !.tries = 1]]
                      /\ txn' = IF st.skipped = c.skipped
                                THEN [holder |-> conn[t], rows |-> st.rows]
                                ELSE txn
                      /\ writes' = IF st.skipped = c.skipped
                                   THEN [writes EXCEPT !.open = @ \cup {card_data[1]}]
                                   ELSE writes
                      /\ UNCHANGED <<pc, exc>>
    /\ UNCHANGED <<conn, handle, pool, created, lockHolder, closing>>
    /\ UNCHANGED <<dbVars, rt, aw, call, transaction, results, dispatched, stats>>

\* one iteration of the record loop while another connection keeps the write
\* lock past the busy timeout: cursor.execute, called once, raises
\* OperationalError('database is locked'), which except sqlite3.Error counts
\* as a skipped record
InsertLocked(t) ==
    /\ cur[t].b # 0 /\ pc[t] = "body"
    /\ ~cur[t].commitDue /\ cur[t].i < cur[t].len
    /\ LockedOut(conn[t])
    /\ cur' = [cur EXCEPT ![t] =
                 [@ EXCEPT !.i = @ + 1, !.skipped = @ + 1,
                           !.commitDue = CommitDueAfter(cur[t].i + 1, cur[t].len),
                           !.lastError = "database is locked", !.tries = 1]]
    /\ UNCHANGED <<txn, results, dispatched, stats, writes>>
    /\ UNCHANGED <<dbVars, poolVars, rt, aw, call, transaction>>

\* conn.commit(): the rows of the open transaction become the table
Commit(t) ==
    /\ cur[t].b # 0 /\ pc[t] = "body"
    /\ cur[t].commitDue
    /\ cur' = [cur EXCEPT ![t].commitDue = FALSE]
    /\ IF txn.holder = conn[t]
       THEN /\ dbCards' = txn.rows /\ txn' = NoTxn
            /\ writes' = [open |-> {},
                          last |-> cur[t].b,
                          by |-> [u \in Uuids |->
                                    IF u \in writes.open THEN cur[t].b ELSE writes.by[u]],
                          done |-> [writes.done EXCEPT ![cur[t].b] = @ \cup writes.open]]
       ELSE UNCHANGED <<dbCards, txn, writes>>
    /\ UNCHANGED <<connCards, cardsCols, lastOp, priceVars>>
    /\ UNCHANGED <<poolVars, rt, aw, call, transaction, results, dispatched, stats>>

\* conn.commit() raises (the disk is full, an I/O error): the exception leaves
\* batch_insert_cards
CommitFails(t) ==
    /\ cur[t].b # 0 /\ pc[t] = "body"
    /\ cur[t].commitDue
    /\ txn.holder = conn[t]
    /\ exc' = [exc EXCEPT ![t] = "OperationalError"]
    /\ pc' = [pc EXCEPT ![t] = "exit"]
    /\ UNCHANGED <<conn, handle, pool, created, lockHolder, closing>>
    /\ UNCHANGED <<dbVars, rt, aw, call, transaction, batchVars>>

\* batch_insert_cards returns its counts
TaskReturns(t) ==
    /\ cur[t].b # 0
    /\ ~cur[t].commitDue /\ cur[t].i = cur[t].len
    /\ BodyReturns(t)
    /\ UNCHANGED batchVars

\* get_connection puts the handle back, or closes it when the task raised:
\* closing rolls the handle's open transaction back
TaskReleases(t) ==
    /\ cur[t].b # 0
    /\ Release(t)
    /\ txn' = IF txn.holder # 0 /\ handle'[txn.holder] = "closed" THEN NoTxn ELSE txn
    /\ writes' = IF txn.holder # 0 /\ handle'[txn.holder] = "closed"
                 THEN [writes EXCEPT !.open = {}] ELSE writes
    /\ TaskEnds(t, IF exc[t] = "none" THEN "returned" ELSE "raised")
    /\ UNCHANGED <<dispatched, stats>>

\* failed_items counts the skipped records of a batch
FailedCountSkippedOnly(res) == res.skipped

\* what the as_completed loop adds to failed_items for a finished future:
\* skipped when future.result() returns, len(batch) when it raises
FailedCount(res) == IF res.status = "raised" THEN res.len ELSE res.skipped

\* what it adds to processed_items
ProcessedCount(res) == IF res.status = "raised" THEN 0 ELSE res.new + res.updated

\* progress_callback(...) at the end of the try block: it returns (or there
\* is none), or it raises
CallbackOutcomes == {"returns", "raises"}

\* what a turn adds to failed_items after the counts of a returned batch: the
\* call of progress_callback is inside the try, so when it raises the except
\* clause adds len(batch)
CallbackFailed(res, callback) ==
    IF res.status = "returned" /\ callback = "raises" THEN res.len ELSE 0

\* one turn of `for future in as_completed(future_to_batch)` in the thread
\* that called process_batches
Collect(b) ==
    /\ results[b].status \in {"returned", "raised"}
    /\ ~results[b].accounted
    /\ results' = [results EXCEPT ![b].accounted = TRUE]
    /\ \E callback \in CallbackOutcomes :
          stats' = [processed_items |-> stats.processed_items + ProcessedCount(results[b]),
                    failed_items |-> stats.failed_items + FailedCount(results[b])
                                       + CallbackFailed(results[b], callback)]
    /\ UNCHANGED <<txn, cur, dispatched, writes>>
    /\ UNCHANGED <<dbVars, poolVars, rt, aw, call, transaction>>

\* threads outside the executor that use the same pool
OtherUsers == Threads \ Workers

NextBatch ==
    \/ \E t \in Workers :
          \/ StartTask(t)
          \/ TaskAcquires(t)
          \/ TaskAcquireFails(t)
          \/ InsertRecord(t)
          \/ InsertLocked(t)
          \/ Commit(t)
          \/ CommitFails(t)
          \/ TaskReturns(t)
          \/ TaskReleases(t)
    \/ \E b \in BatchIds : Collect(b)
    \/ \E t \in OtherUsers :
          \/ GetNowait(t) /\ UNCHANGED batchVars
          \/ AcquireLock(t) /\ UNCHANGED batchVars
          \/ BodyReturns(t) /\ UNCHANGED batchVars
          \/ Release(t) /\ UNCHANGED batchVars

SpecBatch == Init /\ [][NextBatch]_vars

(***************************************************************************)
(* Claims on the batch tasks                                               *)
(***************************************************************************)
\* C7: lock contention in the batch upsert is absorbed by statement-level
\* retry. A record whose write statement failed with 'database is locked' is
\* counted as skipped only after the statement has been tried more than once.
C7_LockAbsorbedByRetry ==
    \A t \in Workers :
        cur[t].lastError = "database is locked" => cur[t].tries > 1

\* rows of the committed table that were written from records of batch b
RowsOfBatch(b) == { i \in 1..Len(dbCards) : dbCards[i][4] = BatchTag(b) }

\* C10: batch atomicity on failure. Once the task of a batch has raised (and
\* its connection is closed), no record of that batch is in the committed
\* table; and the step in which a task raises leaves the committed table as
\* it was.
C10_BatchAtomicity ==
    /\ [](\A b \in BatchIds : results[b].status = "raised" => RowsOfBatch(b) = {})
    /\ [][(\E b \in BatchIds :
              results[b].status = "running" /\ results'[b].status = "raised")
          => dbCards' = dbCards]_vars

\* the task of batch b ended because get_connection's timed get ran out
TimedOut(b) == results[b].exc = "Empty"

\* C11: an acquisition timeout is fatal for the task. A batch whose
\* get_connection timed out has a future that raised, none of its records was
\* attempted or is in the table, and the as_completed turn that accounts it
\* adds the batch's full length to failed_items and nothing to processed_items.
C11_TimeoutIsFatal ==
    /\ [](\A b \in BatchIds :
            TimedOut(b) =>
              /\ results[b].status = "raised"
              /\ results[b].attempted = 0
              /\ results[b].len > 0
              /\ RowsOfBatch(b) = {}
              /\ \A t \in Workers : cur[t].b # b)
    /\ [][\A b \in BatchIds :
            TimedOut(b) /\ ~results[b].accounted /\ results'[b].accounted =>
              /\ stats'.failed_items = stats.failed_items + results[b].len
              /\ stats'.processed_items = stats.processed_items]_vars

\* a batch of batch_size records timed out at the pool and has been accounted
\* as batch_size failed items
C11_Witness ==
    \E b \in BatchIds :
        /\ TimedOut(b) /\ results[b].accounted
        /\ results[b].len = batch_size
        /\ stats.failed_items >= batch_size

\* C31: commit granularity: the batch handed to a worker is committed once,
\* after every record of it has been attempted. While the task of a batch has
\* records it has not attempted yet, no record of that batch is in the
\* committed table, where other connections see it.
C31_CommitGranularity ==
    \A t \in Workers :
        (cur[t].b # 0 /\ cur[t].i < cur[t].len) => RowsOfBatch(cur[t].b) = {}

\* the worker threads whose task is inside process_func
InProcessFunc == { t \in Workers : cur[t].b # 0 /\ pc[t] = "body" }

\* C33: exclusive connection per worker. A batch task that is running
\* process_func holds one pooled connection, open and not in the idle queue,
\* which no other thread holds; at most max_workers batch tasks run at once;
\* records are attempted only between the acquisition and the release, on the
\* same connection, and the connection is given back or closed only after
\* process_func has returned or raised.
C33_ExclusiveConnection ==
    /\ [](\A t \in InProcessFunc :
            /\ conn[t] # 0
            /\ handle[conn[t]] = "open"
            /\ conn[t] \notin Idle
            /\ \A o \in Threads \ {t} : conn[o] # conn[t])
    /\ [](Cardinality({ b \in BatchIds : results[b].status = "running" }) <= max_workers)
    /\ [][\A t \in Workers :
            /\ (cur[t].b # 0 /\ cur'[t].b = cur[t].b /\ cur'[t].i # cur[t].i)
                  => (t \in InProcessFunc /\ conn'[t] = conn[t])
            /\ (cur[t].b # 0 /\ conn[t] # 0 /\ conn'[t] # conn[t])
                  => (pc[t] = "exit" /\ conn'[t] = 0)]_vars

\* two batch tasks are inside process_func, each with records attempted
C33_Witness ==
    /\ InProcessFunc = Workers
    /\ \A t \in Workers : cur[t].i >= 1

\* the sum of f over the batches in S
RECURSIVE SumOver(_, _)
SumOver(S, f) ==
    IF S = {} THEN 0
    ELSE LET b == CHOOSE x \in S : TRUE IN f[b] + SumOver(S \ {b}, f)

ReturnedBatches == { b \in BatchIds : results[b].status = "returned" }
RaisedBatches == { b \in BatchIds : results[b].status = "raised" }

\* C34: aggregate accounting. When process_batches returns, every submitted
\* task has finished and each batch is accounted once: processed_items is the
\* sum of new + updated over the batches that returned, failed_items the sum
\* of their skipped counts plus the lengths of the batches that raised; so
\* processed_items + failed_items is total_items, and the batches next to a
\* raising one are processed.
C34_AggregateAccounting ==
    (\A b \in BatchIds : results[b].accounted) =>
        /\ ReturnedBatches \cup RaisedBatches = BatchIds
        /\ \A t \in Workers : cur[t].b = 0
        /\ stats.processed_items
             = SumOver(ReturnedBatches,
                       [b \in BatchIds |-> results[b].new + results[b].updated])
        /\ stats.failed_items
             = SumOver(ReturnedBatches, [b \in BatchIds |-> results[b].skipped])
               + SumOver(RaisedBatches, [b \in BatchIds |-> results[b].len])
        /\ stats.processed_items + stats.failed_items
             = SumOver(BatchIds, [b \in BatchIds |-> results[b].len])

(***************************************************************************)
(* AsyncDatabaseWriter: write_batch, stop and _writer_loop                 *)
(***************************************************************************)
\* a drain loop that takes the queue for empty
QueueEmptyAlways(q) == TRUE

\* self.write_queue.empty()
QueueEmpty(q) == q = <<>>

\* how a write can end: bulk_insert_with_transaction returns; it raises after
\* its retries; get_connection raises before it is called
WriteOutcomes == {"written", "DatabaseError", "no connection"}

\* len(data) of the batch queued as the item-th: every batch of another
\* length; cursor.rowcount of its executemany is the same number
DataLen(item) == item

\* the main loop's account of a write in self.stats: rows_affected added to
\* processed_items when it returned, len(data) to failed_items by the
\* handler of except Exception when it raised
LoopAccount(w, item, outcome) ==
    IF outcome = "written"
    THEN [w EXCEPT !.processed_items = @ + DataLen(item)]
    ELSE [w EXCEPT !.failed_items = @ + DataLen(item)]

\* write_batch: self.write_queue.put((query, data), timeout=10) finds room
WriteBatch ==
    /\ aw.put < MaxItems
    /\ Len(aw.write_queue) < buffer_size
    /\ aw' = [aw EXCEPT !.put = @ + 1,
                        !.write_queue = Append(@, aw.put + 1)]
    /\ UNCHANGED <<dbVars, poolVars, rt, batchVars, call, transaction>>

\* write_batch: the queue stays full for 10 s and put raises queue.Full
WriteBatchFull ==
    /\ aw.put < MaxItems
    /\ Len(aw.write_queue) >= buffer_size
    /\ aw' = [aw EXCEPT !.put = @ + 1, !.rejected = @ \cup {aw.put + 1}]
    /\ UNCHANGED <<dbVars, poolVars, rt, batchVars, call, transaction>>

\* stop(): self.stop_event.set(), then join(timeout)
Stop ==
    /\ ~aw.stop_event
    /\ aw' = [aw EXCEPT !.stop_event = TRUE,
                        !.putBeforeStop = (1..aw.put) \ aw.rejected]
    /\ UNCHANGED <<dbVars, poolVars, rt, batchVars, call, transaction>>

\* while not self.stop_event.is_set()
LoopTest ==
    /\ aw.pc = "loop"
    /\ aw' = [aw EXCEPT !.pc = IF aw.stop_event THEN "drain" ELSE "get"]
    /\ UNCHANGED <<dbVars, poolVars, rt, batchVars, call, transaction>>

\* self.write_queue.get(timeout=1.0): an item, or Empty and continue
LoopGet ==
    /\ aw.pc = "get"
    /\ IF aw.write_queue # <<>>
       THEN aw' = [aw EXCEPT !.item = Head(aw.write_queue),
                             !.write_queue = Tail(@), !.pc = "write"]
       ELSE aw' = [aw EXCEPT !.pc = "loop"]
    /\ UNCHANGED <<dbVars, poolVars, rt, batchVars, call, transaction>>

\* with self.pool.get_connection() as conn: bulk_insert_with_transaction(...)
\* in the main loop; an exception is logged by except Exception
LoopWrite ==
    /\ aw.pc = "write"
    /\ \E o \in WriteOutcomes :
          aw' = [LoopAccount(aw, aw.item, o) EXCEPT
                   !.attempted = @ \cup {[item |-> aw.item, outcome |-> o,
                                           loop |-> "main"]},
                   !.item = 0, !.pc = "loop"]
    /\ UNCHANGED <<dbVars, poolVars, rt, batchVars, call, transaction>>

\* while not self.write_queue.empty(): get_nowait(); the thread ends when the
\* queue is found empty
DrainTest ==
    /\ aw.pc = "drain"
    /\ IF QueueEmpty(aw.write_queue)
       THEN aw' = [aw EXCEPT !.pc = "exited"]
       ELSE aw' = [aw EXCEPT !.item = Head(aw.write_queue),
                             !.write_queue = Tail(@), !.pc = "drainwrite"]
    /\ UNCHANGED <<dbVars, poolVars, rt, batchVars, call, transaction>>

\* the write of the drain loop; its result is dropped, an exception is
\* logged, self.stats is left alone, and the loop goes on
DrainWrite ==
    /\ aw.pc = "drainwrite"
    /\ \E o \in WriteOutcomes :
          aw' = [aw EXCEPT !.attempted = @ \cup {[item |-> aw.item, outcome |-> o,
                                                  loop |-> "drain"]},
                           !.item = 0, !.pc = "drain"]
    /\ UNCHANGED <<dbVars, poolVars, rt, batchVars, call, transaction>>

WriterThread == LoopTest \/ LoopGet \/ LoopWrite \/ DrainTest \/ DrainWrite

NextWriter ==
    \/ WriteBatch
    \/ WriteBatchFull
    \/ Stop
    \/ LoopTest
    \/ LoopGet
    \/ LoopWrite
    \/ DrainTest
    \/ DrainWrite

\* the writer thread is scheduled; its timed get, the pool's timed get and the
\* retried insert all end
SpecWriter == Init /\ [][NextWriter]_vars /\ WF_vars(WriterThread)

AttemptedItems == { a.item : a \in aw.attempted }

\* the batches the writer thread took from the queue whose write returned,
\* and those whose write raised
WrittenItems == { a.item : a \in { x \in aw.attempted : x.outcome = "written" } }
FailedItems == { a.item : a \in { x \in aw.attempted : x.outcome # "written" } }

\* C37: AsyncDatabaseWriter accounts for every dequeued batch: once the
\* writer thread has exited, every batch it took from the queue, before or
\* after stop() was signalled, has added its affected-row count to
\* stats.processed_items (write returned) or its length to stats.failed_items
\* (write raised)
C37_EveryDequeuedBatchAccounted ==
    aw.pc = "exited" =>
        /\ aw.processed_items = SumOver(WrittenItems, [i \in Items |-> DataLen(i)])
        /\ aw.failed_items = SumOver(FailedItems, [i \in Items |-> DataLen(i)])

LowerName(c) == IF c = "NAME" THEN "name" ELSE c

\* arguments given to ensure_column_exists: a column the schema of the cards
\* table lacks (collection_name, which process_collections passes, is a
\* column of CARDS_TABLE_SCHEMA), a column of the schema, and the same in
\* another case; the cards table and a table that does not exist
ColumnArgs == {"new_column", "name", "NAME"}
TableArgs == {"cards", "decks"}

\* [column_info[1] for column_info in cursor.fetchall()] of PRAGMA table_info:
\* the column names, none for a table that does not exist
TableInfoNames(db, table) ==
    IF table = "cards" THEN { db.cols[i].name : i \in 1..Len(db.cols) } ELSE {}

\* if column not in columns
ColumnMissing(columns, column) == column \notin columns

\* ALTER TABLE t ADD COLUMN c: fails on a missing table and on a name the
\* table already has (in any case); else every row gets a NULL in the new column
AlterTableAddColumn(db, table, column) ==
    IF table # "cards"
    THEN [raised |-> "OperationalError", db |-> db]
    ELSE IF \E i \in 1..Len(db.cols) : LowerName(db.cols[i].name) = LowerName(column)
    THEN [raised |-> "OperationalError", db |-> db]
    ELSE [raised |-> "none",
          db |-> [db EXCEPT
                    !.cols = Append(@, [name |-> column, notnull |-> FALSE]),
                    !.cards = [i \in 1..Len(db.cards) |-> Append(db.cards[i], NULL)]]]

\* ensure_column_exists(conn, table, column)
ensure_column_exists(db, table, column) ==
    IF ColumnMissing(TableInfoNames(db, table), column)
    THEN LET a == AlterTableAddColumn(db, table, column)
         IN  [db |-> a.db, raised |-> a.raised,
              result |-> IF a.raised = "none" THEN "True" ELSE "none",
              statements |-> <<"PRAGMA table_info", "ALTER TABLE ADD COLUMN">>
                             \o (IF a.raised = "none" THEN <<"COMMIT">> ELSE <<>>)]
    ELSE [db |-> db, raised |-> "none", result |-> "False",
          statements |-> <<"PRAGMA table_info">>]

\* a reset that leaves the price table in place
DropCardsOnly(db) ==
    [db |-> [db EXCEPT !.cards = <<>>, !.cols = <<>>],
     statements |-> <<"DROP TABLE IF EXISTS cards", "COMMIT">>]

\* drop_all_tables(conn)
drop_all_tables(db) ==
    [db |-> Snapshot(<<>>, <<>>, FALSE, {}),
     statements |-> <<"DROP TABLE IF EXISTS card_prices",
                      "DROP TABLE IF EXISTS cards", "COMMIT">>]

\* a start that always resets
DropRequestedAlways(fresh_start) == TRUE

\* if fresh_start
DropRequested(fresh_start) == fresh_start

\* create_database(db_path, fresh_start): drop when asked, create the cards
\* table if it is absent (no columns: dropped), create the indexes
create_database(db, fresh_start) ==
    LET d == IF DropRequested(fresh_start) THEN drop_all_tables(db)
             ELSE [db |-> db, statements |-> <<>>]
        absent == d.db.cols = <<>>
    IN  [db |-> IF absent THEN [d.db EXCEPT !.cols = CARDS_TABLE_SCHEMA] ELSE d.db,
         statements |-> d.statements
                        \o (IF absent THEN <<"CREATE TABLE cards", "COMMIT">> ELSE <<>>)
                        \o <<"CREATE INDEX IF NOT EXISTS", "COMMIT">>]

\* the database file as the script's connection finds it
CurrentDb == Snapshot(dbCards, cardsCols, priceTable, dbPrices)

\* the operation's result becomes the database file
StoreDb(db) ==
    /\ dbCards' = db.cards
    /\ connCards' = db.cards
    /\ cardsCols' = db.cols
    /\ priceTable' = db.priceTable
    /\ dbPrices' = db.prices

\* a script opens the database: create_database(db_path, fresh_start)
CreateDatabase ==
    /\ dbOp = NoDbOp
    /\ \E fresh_start \in BOOLEAN :
          LET r == create_database(CurrentDb, fresh_start)
          IN  /\ StoreDb(r.db)
              /\ dbOp' = [op |-> "create_database", args |-> <<fresh_start>>,
                          result |-> "conn", raised |-> "none",
                          statements |-> r.statements, before |-> CurrentDb]
    /\ UNCHANGED <<lastOp, poolVars, rt, aw, call, transaction, batchVars>>

\* ensure_column_exists(conn, table, column)
EnsureColumnExists ==
    /\ dbOp = NoDbOp
    /\ \E table \in TableArgs, column \in ColumnArgs :
          LET r == ensure_column_exists(CurrentDb, table, column)
          IN  /\ StoreDb(r.db)
              /\ dbOp' = [op |-> "ensure_column_exists", args |-> <<table, column>>,
                          result |-> r.result, raised |-> r.raised,
                          statements |-> r.statements, before |-> CurrentDb]
    /\ UNCHANGED <<lastOp, poolVars, rt, aw, call, transaction, batchVars>>

\* the lists of card tuples the scripts pass on: well-formed cards and one
\* whose NOT NULL name is None
ScriptBatches == SeqsUpTo(GoodRecords \cup {Card("u1", NULL, "t")}, MaxScriptBatch)

\* a script runs batch_insert_cards on its connection and closes it: rows
\* written but not committed are rolled back
InsertCards ==
    /\ dbOp = NoDbOp
    /\ \E cards_data \in ScriptBatches :
          LET r == batch_insert_cards(dbCards, dbCards, cardsCols, cards_data,
                                      DEFAULT_BATCH_SIZE)
          IN  /\ StoreDb([CurrentDb EXCEPT !.cards = r.committed])
              /\ dbOp' = [op |-> "batch_insert_cards", args |-> cards_data,
                          result |-> <<r.new, r.updated, r.skipped>>,
                          raised |-> r.raised, statements |-> <<>>,
                          before |-> CurrentDb]
    /\ UNCHANGED <<lastOp, poolVars, rt, aw, call, transaction, batchVars>>

\* the script goes on to its next operation
DbReturn ==
    /\ dbOp # NoDbOp
    /\ dbOp' = NoDbOp
    /\ UNCHANGED <<dbCards, connCards, cardsCols, lastOp, priceTable, dbPrices>>
    /\ UNCHANGED <<poolVars, rt, aw, call, transaction, batchVars>>

(***************************************************************************)
(* Price ingestion: card_processing.py, scripts/process_prices.py and the  *)
(* price loops of mtg_cli                                                  *)
(***************************************************************************)
\* ---- bounds: entries of a price dump, and the price loops' batch_size
MaxDump == 2
price_batch_size == 1

\* uuids of a price dump: the cards' and one no card has
PriceUuids == Uuids \cup {"u9"}
Dates == {"d1", "d2"}

\* the path extract_tcgplayer_price follows in the price data of a card
PathKeys == <<"paper", "tcgplayer", "retail", "normal">>

\* price data of one card, as far as the path goes: the number of its keys
\* that are there, one inside the other; whether the value under the last of
\* them is null (else it is an object, which lacks the next key); and, under
\* "normal", the date -> price mapping as the list of its values
PriceObject(keys, null, normal) == [keys |-> keys, null |-> null, normal |-> normal]

\* price data of one card: without the paper/tcgplayer/retail/normal path,
\* or with the date -> price mapping found there (its values, None included)
CardPriceData ==
    { PriceObject(2, FALSE, <<>>) }
    \cup { PriceObject(Len(PathKeys), FALSE, n) : n \in { <<NULL>>, <<"2">>, <<"2", "4">> } }

UuidRank(u) == CASE u = "u1" -> 1 [] u = "u2" -> 2 [] OTHER -> 3

\* AllPrices "data": uuid -> price data, a dict (each uuid once), as the list
\* of its items, here in the order of the uuids
PriceEntries ==
    [uuid : Uuids, data : CardPriceData]
    \cup { [uuid |-> "u9", data |-> PriceObject(Len(PathKeys), FALSE, <<"2", "4">>)] }

PriceDumps ==
    { d \in SeqsUpTo(PriceEntries, MaxDump) :
        \A i, j \in 1..Len(d) : i < j => UuidRank(d[i].uuid) < UuidRank(d[j].uuid) }

\* one small dump, for the operations on the schema
SampleDumps == { <<[uuid |-> "u1", data |-> PriceObject(Len(PathKeys), FALSE, <<"2">>)]>> }

\* the JSON numbers of the price files, as numbers
PriceValue(p) ==
    CASE p = "0" -> 0 [] p = "1" -> 1 [] p = "2" -> 2 [] p = "3" -> 3 [] p = "4" -> 4
      [] OTHER -> 0

RECURSIVE Gcd(_, _)
Gcd(a, b) == IF b = 0 THEN a ELSE Gcd(b, a % b)

\* a quotient as the stored value shows it: the fraction in lowest terms,
\* "3" for 6 / 2 and "5/2" for 5 / 2
FormatPrice(num, den) ==
    LET g == Gcd(num, den)
    IN  IF den \div g = 1 THEN ToString(num \div g)
        ELSE ToString(num \div g) \o "/" \o ToString(den \div g)

\* sum(prices) / len(prices)
Quotient(sum, len) == FormatPrice(sum, len)

RECURSIVE SumPrices(_)
SumPrices(prices) ==
    IF prices = <<>> THEN 0 ELSE PriceValue(Head(prices)) + SumPrices(Tail(prices))

\* a filter that keeps the None values
AllValues(normal) == normal

\* [p for p in price_dict.values() if p is not None]
ValidPrices(normal) == SelectSeq2(normal, LAMBDA p : p # NULL)

\* calculate_average_price(price_dict): the dict as the list of its values
calculate_average_price(normal) ==
    IF normal = <<>> THEN NULL
    ELSE LET prices == ValidPrices(normal)
         IN  IF prices = <<>> THEN NULL
             ELSE Quotient(SumPrices(prices), Len(prices))

RECURSIVE FollowPath(_, _)
\* the tests `if key not in container: return None` from the i-th key on:
\* `in` raises TypeError on a container that is None; after the last key,
\* calculate_average_price of the value found (None for a null: `not None`)
FollowPath(data, i) ==
    IF i > 1 /\ data.keys = i - 1 /\ data.null /\ i <= Len(PathKeys)
    THEN [result |-> "none", raised |-> "TypeError"]
    ELSE IF i > Len(PathKeys)
    THEN [result |-> IF data.null THEN NULL ELSE calculate_average_price(data.normal),
          raised |-> "none"]
    ELSE IF data.keys < i
    THEN [result |-> NULL, raised |-> "none"]
    ELSE FollowPath(data, i + 1)

\* extract_tcgplayer_price(card_price_data): the value returned, for price
\* data in which no value on the path is null
extract_tcgplayer_price(data) == FollowPath(data, 1).result

\* a filter that takes every uuid for a card's
KnownAlways(uuid, existing_uuids) == TRUE

\* if uuid in existing_uuids
Known(uuid, existing_uuids) == uuid \in existing_uuids

RECURSIVE process_price_batch(_, _, _)
\* process_price_batch(price_entries, existing_uuids), with today's date
process_price_batch(price_entries, existing_uuids, today) ==
    IF price_entries = <<>> THEN <<>>
    ELSE LET e == Head(price_entries)
             rest == process_price_batch(Tail(price_entries), existing_uuids, today)
             avg_price == extract_tcgplayer_price(e.data)
         IN  IF ~Known(e.uuid, existing_uuids) THEN rest
             ELSE IF avg_price # NULL
             THEN <<[uuid |-> e.uuid, average_price |-> avg_price,
                     price_date |-> today]>> \o rest
             ELSE rest

\* an insert that keeps the row already stored under the key
InsertPricePlain(rows, tup) == rows \cup {tup}

\* INSERT OR REPLACE INTO card_prices (uuid, average_price, price_date):
\* a row with the same primary key (uuid, price_date) is deleted first
InsertPrice(rows, tup) ==
    { r \in rows : ~(r.uuid = tup.uuid /\ r.price_date = tup.price_date) } \cup {tup}

RECURSIVE ExecuteManyPrices(_, _)
\* cursor.executemany(INSERT_PRICE_QUERY, price_batch)
ExecuteManyPrices(rows, price_batch) ==
    IF price_batch = <<>> THEN rows
    ELSE ExecuteManyPrices(InsertPrice(rows, Head(price_batch)), Tail(price_batch))

\* get_existing_card_uuids(conn)
get_existing_card_uuids(cards) == UuidsOf(cards)

\* the price loop of setup_command and update_command: the same filter as
\* process_price_batch, the tuples inserted and committed price_batch_size at
\* a time; `fail` is the number of executemany calls that succeed before one
\* raises (-1: none raises)
PriceLoop(rows, price_entries, existing_uuids, today, fail) ==
    LET tuples == process_price_batch(price_entries, existing_uuids, today)
        batches == (Len(tuples) + price_batch_size - 1) \div price_batch_size
        done == IF fail < 0 \/ fail >= batches THEN Len(tuples)
                ELSE fail * price_batch_size
    IN  [rows |-> ExecuteManyPrices(rows, SubSeq(tuples, 1, done)),
         raised |-> IF fail < 0 \/ fail >= batches THEN "none" ELSE "OperationalError",
         tuples |-> tuples]

\* create_price_table(conn), then the ingestion of a dump by process_prices
\* (process_all_price_data: one executemany, one commit) or by setup_command's
\* price step (the loop)
IngestPricesFrom(dumps, dates) ==
    /\ dbOp = NoDbOp
    /\ \E dump \in dumps, today \in dates, via \in {"process_prices", "setup"} :
          LET existing_uuids == get_existing_card_uuids(dbCards)
              tuples == process_price_batch(dump, existing_uuids, today)
              rows == IF via = "setup"
                      THEN PriceLoop(dbPrices, dump, existing_uuids, today, -1).rows
                      ELSE ExecuteManyPrices(dbPrices, tuples)
          IN  /\ dbPrices' = rows
              /\ priceTable' = TRUE
              /\ dbOp' = [op |-> "ingest_prices", args |-> <<dump, today, via>>,
                          result |-> tuples, raised |-> "none",
                          statements |-> <<>>, before |-> CurrentDb]
    /\ UNCHANGED <<dbCards, connCards, cardsCols, lastOp>>
    /\ UNCHANGED <<poolVars, rt, aw, call, transaction, batchVars>>

IngestPrices == IngestPricesFrom(PriceDumps, Dates)

IngestSample == IngestPricesFrom(SampleDumps, {"d1"})

(***************************************************************************)
(* mtg_cli.update_command                                                  *)
(***************************************************************************)
\* the card lists an update brings: nothing, or a card
UpdateCards == { <<>>, <<Card("u2", "A", "t")>> }

\* where an update can fail: nowhere, in download_all_data, reading the card
\* file, reading the price file, in an executemany of the price loop
FailurePoints == {"none", "download", "read_cards", "read_prices", "reload"}

\* an update that keeps the old prices
KeepPrices(rows) == rows

\* DELETE FROM card_prices
DeletePrices(rows) == {}

\* update_command up to its failure (the except clause logs and returns 1):
\* download; create_database(fresh_start=False) and the card upsert through
\* process_batches; create_price_table, DELETE FROM card_prices and commit;
\* read the price file; the price loop
update_command(db, cards_data, dump, today, failAt, fail) ==
    IF failAt = "download" THEN [db |-> db, result |-> 1, tuples |-> <<>>]
    ELSE
    LET opened == create_database(db, FALSE).db
    IN  IF failAt = "read_cards" THEN [db |-> opened, result |-> 1, tuples |-> <<>>]
        ELSE
        LET upserted == batch_insert_cards(opened.cards, opened.cards, opened.cols,
                                           cards_data, DEFAULT_BATCH_SIZE).committed
            cleared == [opened EXCEPT !.cards = upserted, !.priceTable = TRUE,
                                      !.prices = DeletePrices(@)]
        IN  IF failAt = "read_prices" THEN [db |-> cleared, result |-> 1, tuples |-> <<>>]
            ELSE
            LET loop == PriceLoop(cleared.prices, dump,
                                  get_existing_card_uuids(upserted), today,
                                  IF failAt = "reload" THEN fail ELSE -1)
            IN  [db |-> [cleared EXCEPT !.prices = loop.rows],
                 result |-> IF loop.raised = "none" THEN 0 ELSE 1,
                 tuples |-> loop.tuples]

\* `mtg update` runs
UpdateCommandFrom(dumps, dates) ==
    /\ dbOp = NoDbOp
    /\ \E cards_data \in UpdateCards, dump \in dumps, today \in dates,
          failAt \in FailurePoints, fail \in 0..(MaxDump - 1) :
          LET r == update_command(CurrentDb, cards_data, dump, today, failAt, fail)
          IN  /\ failAt # "reload" => fail = 0
              /\ StoreDb(r.db)
              /\ dbOp' = [op |-> "update_command",
                          args |-> <<cards_data, dump, today, failAt>>,
                          result |-> r.result,
                          raised |-> IF r.result = 0 THEN "none" ELSE failAt,
                          statements |-> <<>>, before |-> CurrentDb]
    /\ UNCHANGED <<lastOp, poolVars, rt, aw, call, transaction, batchVars>>

\* an update on the latest date
UpdateCommand == UpdateCommandFrom(PriceDumps, {"d2"})

UpdateSample == UpdateCommandFrom(SampleDumps, {"d1"})

\* the scripts' operations on the schema and the cards, with a sample of prices
NextDb ==
    \/ CreateDatabase
    \/ EnsureColumnExists
    \/ InsertCards
    \/ IngestSample
    \/ UpdateSample
    \/ DbReturn

SpecDb == Init /\ [][NextDb]_vars

\* a script stores the cards of one set
SeedCards ==
    /\ dbOp = NoDbOp
    /\ \E u \in Uuids :
          LET r == batch_insert_cards(dbCards, dbCards, cardsCols,
                                      <<Card(u, "A", "t")>>, DEFAULT_BATCH_SIZE)
          IN  /\ StoreDb([CurrentDb EXCEPT !.cards = r.committed])
              /\ dbOp' = [op |-> "batch_insert_cards", args |-> <<Card(u, "A", "t")>>,
                          result |-> <<r.new, r.updated, r.skipped>>,
                          raised |-> r.raised, statements |-> <<>>,
                          before |-> CurrentDb]
    /\ UNCHANGED <<lastOp, poolVars, rt, aw, call, transaction, batchVars>>

\* price ingestion and updates over a growing set of cards
NextPrices ==
    \/ SeedCards
    \/ IngestPrices
    \/ UpdateCommand
    \/ DbReturn

SpecPrices == Init /\ [][NextPrices]_vars

(***************************************************************************)
(* Claims about the schema operations and the card rows                    *)
(***************************************************************************)
\* the operation just run is a fresh start
FreshStart == dbOp.op = "create_database" /\ dbOp.args = <<TRUE>>

\* C13: card rows are never deleted without a fresh start: whatever
\* operation other than create_database(fresh_start=True) has just run
\* (create_database(False), ensure_column_exists, batch_insert_cards, a price
\* ingestion, an update), every uuid that was in cards before it is still there
C13_UuidsNeverShrink ==
    (dbOp # NoDbOp /\ ~FreshStart)
        => UuidsOf(dbOp.before.cards) \subseteq UuidsOf(dbCards)

\* create_database(fresh_start=False) ran on a table holding two cards, one of
\* them stored with replaced content earlier, and both are still there
C13_Witness ==
    /\ dbOp.op = "create_database"
    /\ dbOp.args = <<FALSE>>
    /\ UuidsOf(dbOp.before.cards) = Uuids
    /\ \E i \in 1..Len(dbCards) : dbCards[i][1] = "u1" /\ dbCards[i][2] = "B"
    /\ UuidsOf(dbCards) = Uuids

\* the place of a statement among those an operation issued, 0 if not issued
StatementIndex(statements, x) ==
    IF \E i \in 1..Len(statements) : statements[i] = x
    THEN CHOOSE i \in 1..Len(statements) :
            statements[i] = x /\ \A j \in 1..(i - 1) : statements[j] # x
    ELSE 0

\* C14: fresh-start destructiveness: after create_database(fresh_start=True),
\* whatever the database held, the cards table exists (with the columns of the
\* schema) and has no row, the card_prices table is gone with its rows, and
\* the price table was dropped before the card table
C14_FreshStartDestroys ==
    FreshStart =>
        /\ cardsCols = CARDS_TABLE_SCHEMA
        /\ dbCards = <<>>
        /\ ~priceTable
        /\ dbPrices = {}
        /\ StatementIndex(dbOp.statements, "DROP TABLE IF EXISTS card_prices") > 0
        /\ StatementIndex(dbOp.statements, "DROP TABLE IF EXISTS card_prices")
             < StatementIndex(dbOp.statements, "DROP TABLE IF EXISTS cards")
        /\ StatementIndex(dbOp.statements, "DROP TABLE IF EXISTS cards")
             < StatementIndex(dbOp.statements, "CREATE TABLE cards")

\* a fresh start on a database that held two cards, the added column
\* collection_name and a price row
C14_Witness ==
    /\ FreshStart
    /\ Len(dbOp.before.cards) = 2
    /\ Len(dbOp.before.cols) > Len(CARDS_TABLE_SCHEMA)
    /\ dbOp.before.priceTable
    /\ dbOp.before.prices # {}
    /\ dbCards = <<>>

\* the table has the column, as SQLite tells columns apart
HasColumn(db, table, column) ==
    /\ table = "cards"
    /\ \E i \in 1..Len(db.cols) : LowerName(db.cols[i].name) = LowerName(column)

\* every row of before is a row of after, in place, with the values it had
RowsPreserved(before, after) ==
    /\ Len(after) = Len(before)
    /\ \A i \in 1..Len(before) :
          /\ Len(after[i]) >= Len(before[i])
          /\ SubSeq(after[i], 1, Len(before[i])) = before[i]

\* C15: column evolution is idempotent: on an existing table,
\* ensure_column_exists(table, column) adds the column and returns True if and
\* only if the table does not have the column; the same call made again right
\* after issues no ALTER and returns False; the rows of the table are kept by
\* both calls
C15_ColumnEvolutionIdempotent ==
    (dbOp.op = "ensure_column_exists" /\ dbOp.args[1] = "cards") =>
        LET table == dbOp.args[1]
            column == dbOp.args[2]
            added == /\ dbOp.result = "True"
                     /\ Len(cardsCols) = Len(dbOp.before.cols) + 1
                     /\ cardsCols[Len(cardsCols)].name = column
            again == ensure_column_exists(CurrentDb, table, column)
        IN  /\ added <=> ~HasColumn(dbOp.before, table, column)
            /\ again.result = "False"
            /\ StatementIndex(again.statements, "ALTER TABLE ADD COLUMN") = 0
            /\ RowsPreserved(dbOp.before.cards, dbCards)
            /\ RowsPreserved(dbCards, again.db.cards)

\* the uuids stored in the rows
StoredUuids(rows) == { rows[i][1] : i \in 1..Len(rows) }

\* C35: the upsert survives schema evolution: after ensure_column_exists has
\* added a column to the cards table, batch_insert_cards given well-formed
\* tuples of prepare_card_data writes every one of them (new + updated is
\* their number, skipped is 0) and the rows stored before are still present
C35_UpsertSurvivesMigration ==
    (/\ dbOp.op = "batch_insert_cards"
     /\ Len(dbOp.before.cols) > Len(CARDS_TABLE_SCHEMA)
     /\ \A i \in 1..Len(dbOp.args) : dbOp.args[i] \in GoodRecords) =>
        /\ dbOp.raised = "none"
        /\ dbOp.result[1] + dbOp.result[2] = Len(dbOp.args)
        /\ dbOp.result[3] = 0
        /\ StoredUuids(dbOp.before.cards) \subseteq StoredUuids(dbCards)
        /\ \A i \in 1..Len(dbOp.args) : dbOp.args[i][1] \in StoredUuids(dbCards)

(***************************************************************************)
(* Claims about the prices                                                 *)
(***************************************************************************)
\* the operation just run ingested prices: a run of process_prices or of
\* setup's price step, or an update
PricesIngested == dbOp.op \in {"ingest_prices", "update_command"}

\* the uuids of the dump the operation was given
DumpOf(op) == op.args[IF op.op = "ingest_prices" THEN 1 ELSE 2]
DumpUuids(op) == { DumpOf(op)[i].uuid : i \in 1..Len(DumpOf(op)) }

\* the rows the operation added or replaced
RowsWritten == dbPrices \ dbOp.before.prices

\* C16: prices for unknown cards are never stored: a price entry whose uuid
\* is not in cards at ingestion time gives no tuple (process_price_batch) and
\* no card_prices row (process_prices, the price loops of setup and update);
\* every tuple and every row written has a uuid of cards and a non-null price
C16_UnknownPricesNotStored ==
    PricesIngested =>
        /\ \A r \in RowsWritten :
              r.uuid \in UuidsOf(dbCards) /\ r.average_price # NULL
        /\ \A u \in DumpUuids(dbOp) \ UuidsOf(dbCards) :
              \A r \in RowsWritten : r.uuid # u
        /\ dbOp.op = "ingest_prices" =>
              \A i \in 1..Len(dbOp.result) :
                 /\ dbOp.result[i].uuid \in UuidsOf(dbOp.before.cards)
                 /\ dbOp.result[i].average_price # NULL

\* setup's price step got a dump with a price for the stored card u1 and a
\* price for u9, which no card has: one tuple, one row, for u1
C16_Witness ==
    /\ dbOp.op = "ingest_prices"
    /\ dbOp.args[3] = "setup"
    /\ UuidsOf(dbCards) = {"u1"}
    /\ DumpUuids(dbOp) = {"u1", "u9"}
    /\ Len(dbOp.result) = 1
    /\ dbOp.result[1].uuid = "u1"
    /\ { r.uuid : r \in RowsWritten } = {"u1"}

\* the tuples the operation produced for its inserts
TuplesOf(op) ==
    process_price_batch(op.args[1], get_existing_card_uuids(op.before.cards), op.args[2])

\* C17: price key uniqueness: card_prices never holds two rows with the same
\* (uuid, price_date); and after an ingestion run every (uuid, price_date) it
\* produced a tuple for holds the newly ingested average_price, also where a
\* row with another value was stored under that key before
C17_PriceKeyUnique ==
    /\ \A r1, r2 \in dbPrices :
          (r1.uuid = r2.uuid /\ r1.price_date = r2.price_date) => r1 = r2
    /\ dbOp.op = "ingest_prices" =>
          \A i \in 1..Len(TuplesOf(dbOp)) : TuplesOf(dbOp)[i] \in dbPrices

\* a run ingested the price 3 for (u1, d1), which held the price 2: the row
\* now holds 3, and the row of (u1, d2) is as it was
C17_Witness ==
    /\ dbOp.op = "ingest_prices"
    /\ [uuid |-> "u1", average_price |-> "2", price_date |-> "d1"] \in dbOp.before.prices
    /\ [uuid |-> "u1", average_price |-> "2", price_date |-> "d2"] \in dbOp.before.prices
    /\ [uuid |-> "u1", average_price |-> "3", price_date |-> "d1"] \in dbPrices
    /\ [uuid |-> "u1", average_price |-> "2", price_date |-> "d1"] \notin dbPrices
    /\ [uuid |-> "u1", average_price |-> "2", price_date |-> "d2"] \in dbPrices

\* the update just run completed: update_command returned 0
UpdateSucceeded == dbOp.op = "update_command" /\ dbOp.result = 0

\* the rows a dump stands for on a date: one for each of its entries whose
\* uuid is a card's and whose price can be extracted
SnapshotRows(dump, existing_uuids, today) ==
    { [uuid |-> dump[i].uuid,
       average_price |-> extract_tcgplayer_price(dump[i].data),
       price_date |-> today] :
      i \in { j \in 1..Len(dump) :
                /\ dump[j].uuid \in existing_uuids
                /\ extract_tcgplayer_price(dump[j].data) # NULL } }

\* C18: an update replaces the whole price snapshot: after update_command
\* returned 0, card_prices holds exactly one row, dated with the run's date,
\* for each uuid that is in the dump and in cards and has an extractable
\* price, and no other row: none of the rows stored before is left
C18_UpdateReplacesSnapshot ==
    UpdateSucceeded =>
        /\ dbPrices = SnapshotRows(dbOp.args[2], UuidsOf(dbCards), dbOp.args[3])
        /\ \A r \in dbOp.before.prices :
              r \in dbPrices => r \in SnapshotRows(dbOp.args[2], UuidsOf(dbCards), dbOp.args[3])

\* an update completed on a table that held prices of both dates for u1 and
\* u2; its dump had a price for u1 only: one row is left, the new one
C18_Witness ==
    /\ UpdateSucceeded
    /\ { r.price_date : r \in dbOp.before.prices } = Dates
    /\ { r.uuid : r \in dbOp.before.prices } = Uuids
    /\ Cardinality(dbOp.before.prices) = 4
    /\ DumpUuids(dbOp) = {"u1", "u9"}
    /\ Cardinality(dbPrices) = 1
    /\ dbPrices \cap dbOp.before.prices = {}

\* the update just run failed: update_command returned 1
UpdateFailed == dbOp.op = "update_command" /\ dbOp.result = 1

\* C19: no data corruption on a partial failure of an update: when
\* update_command has failed at one of its steps (download, card file, price
\* file, price reload), card_prices holds the rows it held before the update:
\* it is neither emptied nor partially reloaded
C19_FailedUpdateKeepsPrices ==
    UpdateFailed => dbPrices = dbOp.before.prices

(***************************************************************************)
(* Claims on uuids written by more than one batch                          *)
(***************************************************************************)
\* the rows of the committed table stored under uuid u
RowsOfUuid(u) == { i \in 1..Len(dbCards) : dbCards[i][1] = u }

\* the table holds one row for u, the tuple batch b has for it
HoldsTupleOf(u, b) ==
    /\ Cardinality(RowsOfUuid(u)) = 1
    /\ \A i \in RowsOfUuid(u) : dbCards[i] = Card(u, "A", BatchTag(b))

\* process_batches has returned: every future is accounted
ProcessBatchesReturned == \A b \in BatchIds : results[b].accounted

\* the uuids whose writes by two different batches were committed
WrittenByTwo ==
    { u \in Uuids : \E b1, b2 \in BatchIds : b1 # b2 /\ u \in writes.done[b1] \cap writes.done[b2] }

MaxPrices == 3

\* the values of a mapping: JSON null and numbers, 0 among them
PriceLiterals == {NULL, "0", "1", "3", "4"}

\* date -> price mappings, as the lists of their values
PriceMappings == SeqsUpTo(PriceLiterals, MaxPrices)

\* the other state stays as it is while a function runs
FunctionFrame == UNCHANGED <<dbVars, poolVars, rt, batchVars, aw, transaction>>

\* the caller takes the result
CallReturns ==
    /\ call.fn # "none"
    /\ call' = NoCall
    /\ FunctionFrame

\* calculate_average_price(price_dict)
CalculateAveragePrice ==
    /\ call.fn = "none"
    /\ \E price_dict \in PriceMappings :
          call' = [fn |-> "calculate_average_price", arg |-> price_dict,
                   result |-> calculate_average_price(price_dict),
                   raised |-> "none"]
    /\ FunctionFrame

(***************************************************************************)
(* Claims about the price functions                                        *)
(***************************************************************************)
\* the places of a mapping's list that hold a number
NumberPlaces(m) == { i \in 1..Len(m) : m[i] # NULL }

RECURSIVE TotalUpTo(_, _)
\* the sum of the numbers in the first k places
TotalUpTo(m, k) ==
    IF k = 0 THEN 0
    ELSE TotalUpTo(m, k - 1) + (IF m[k] = NULL THEN 0 ELSE PriceValue(m[k]))

\* the result is the number total / count
IsMean(result, total, count) ==
    /\ result # NULL
    /\ \E n \in 0..total, d \in 1..count :
          result = FormatPrice(n, d) /\ n * count = total * d

\* C21: price averaging: calculate_average_price returns the arithmetic mean
\* of the non-null values of the mapping, their sum divided by their count;
\* for a mapping that is empty or holds only nulls it returns None, not 0, and
\* raises nothing
C21_PriceAveraging ==
    call.fn = "calculate_average_price" =>
        /\ call.raised = "none"
        /\ IF NumberPlaces(call.arg) = {}
           THEN call.result = NULL /\ call.result # "0"
           ELSE IsMean(call.result, TotalUpTo(call.arg, Len(call.arg)),
                       Cardinality(NumberPlaces(call.arg)))

\* the mapping holds 1, null and 4: the result is 5/2
C21_Witness ==
    /\ call.fn = "calculate_average_price"
    /\ call.arg = <<"1", NULL, "4">>
    /\ call.result = "5/2"


\* the price data of a card: every number of keys on the path, under the
\* last of them an object or a null, under "normal" every mapping
PriceObjects ==
    { PriceObject(0, FALSE, <<>>) }
    \cup { PriceObject(k, n, <<>>) : k \in 1..Len(PathKeys), n \in BOOLEAN }
    \cup { PriceObject(Len(PathKeys), FALSE, m) : m \in PriceMappings }

\* extract_tcgplayer_price(card_price_data)
ExtractTcgplayerPrice ==
    /\ call.fn = "none"
    /\ \E card_price_data \in PriceObjects :
          call' = [fn |-> "extract_tcgplayer_price", arg |-> card_price_data,
                   result |-> FollowPath(card_price_data, 1).result,
                   raised |-> FollowPath(card_price_data, 1).raised]
    /\ FunctionFrame

\* a level of the path is missing: not all of its keys are there
PathIncomplete(data) == data.keys < Len(PathKeys)

\* C22: missing-path tolerance: when any level of the path paper ->
\* tcgplayer -> retail -> normal is missing from the price data,
\* extract_tcgplayer_price returns None and does not raise; otherwise it
\* returns what calculate_average_price returns for the mapping at the path
C22_MissingPathTolerance ==
    call.fn = "extract_tcgplayer_price" =>
        IF PathIncomplete(call.arg)
        THEN call.raised = "none" /\ call.result = NULL
        ELSE /\ call.raised = "none"
             /\ ~call.arg.null => call.result = calculate_average_price(call.arg.normal)


(***************************************************************************)
(* card_processing.prepare_card_data                                       *)
(***************************************************************************)
\* ---- bound: fields present in a card object
MaxFields == 2

\* CARD_FIELD_MAPPING, in its order: JSON key, database field
CARD_FIELD_MAPPING ==
    << <<"uuid", "uuid">>, <<"name", "name">>, <<"number", "number">>,
       <<"manaCost", "mana_cost">>, <<"manaValue", "mana_value">>,
       <<"type", "type">>, <<"text", "text">>, <<"power", "power">>,
       <<"toughness", "toughness">>, <<"loyalty", "loyalty">>,
       <<"colors", "colors">>, <<"colorIdentity", "color_identity">>,
       <<"rarity", "rarity">>, <<"artist", "artist">>,
       <<"flavorText", "flavor_text">>,
       <<"convertedManaCost", "converted_mana_cost">>, <<"layout", "layout">>,
       <<"frameVersion", "frame_version">>, <<"borderColor", "border_color">>,
       <<"isReprint", "is_reprint">>, <<"printings", "printings">>,
       <<"types", "types">>, <<"subtypes", "subtypes">>,
       <<"supertypes", "supertypes">>, <<"keywords", "keywords">>,
       <<"legalities", "legalities">>, <<"edhrecRank", "edhrecRank">>,
       <<"edhrecSaltiness", "edhrecSaltiness">> >>

JSON_FIELDS ==
    {"colors", "colorIdentity", "printings", "types", "subtypes", "supertypes",
     "keywords", "legalities"}

\* the columns of CREATE TABLE cards, in their order
CardsColumns ==
    << "uuid", "name", "set_code", "set_name", "collection_name", "number",
       "mana_cost", "mana_value", "type", "text", "power", "toughness",
       "loyalty", "colors", "color_identity", "rarity", "artist",
       "flavor_text", "converted_mana_cost", "layout", "frame_version",
       "border_color", "is_reprint", "printings", "types", "subtypes",
       "supertypes", "keywords", "legalities", "edhrecRank", "edhrecSaltiness" >>

\* the card_data tuple as prepare_card_data writes it down: the arguments it
\* places, and the fields of processed_card it gets
CardDataTuple ==
    << "uuid", "name", "<set_code>", "<set_name>", "<collection_name>", "number",
       "mana_cost", "mana_value", "type", "text", "power", "toughness",
       "loyalty", "colors", "color_identity", "rarity", "artist",
       "flavor_text", "converted_mana_cost", "layout", "frame_version",
       "border_color", "is_reprint", "printings", "types", "subtypes",
       "supertypes", "keywords", "legalities", "edhrecRank", "edhrecSaltiness" >>

JsonKeys == { CARD_FIELD_MAPPING[i][1] : i \in 1..Len(CARD_FIELD_MAPPING) }

\* values of a card object: a key that is not there, JSON null (NULL), true
\* and false, a text or number, a list with an element and an empty list;
\* json.dumps(value) is a str, not the value
ABSENT == "<absent>"
JSON_TRUE == "<true>"
JSON_FALSE == "<false>"
JSON_LIST == "<list [R]>"
JSON_EMPTY_LIST == "<list []>"
JsonDumps(value) == "<str " \o value \o ">"

\* the values tried under a key
FieldValues(json_key) ==
    IF json_key = "isReprint" THEN {NULL, JSON_TRUE, JSON_FALSE}
    ELSE IF json_key \in JSON_FIELDS THEN {NULL, JSON_LIST, JSON_EMPTY_LIST}
    ELSE {NULL, "v"}

KeyValues == UNION { { <<k, v>> : v \in FieldValues(k) } : k \in JsonKeys }

\* the card object without any key
EmptyCard == [k \in JsonKeys |-> ABSENT]

RECURSIVE CardsUpTo(_)
\* the card objects with at most n keys
CardsUpTo(n) ==
    IF n = 0 THEN {EmptyCard}
    ELSE LET fewer == CardsUpTo(n - 1)
         IN  fewer \cup { [c EXCEPT ![p[1]] = p[2]] : c \in fewer, p \in KeyValues }

CardObjects == CardsUpTo(MaxFields)

\* card.get(json_key)
CardGet(card, json_key) == IF card[json_key] = ABSENT THEN NULL ELSE card[json_key]

\* a test that takes everything but None for true
NotNone(value) == value # NULL

\* `if value`: None, false and the empty list are falsy
Truthy(value) == value \notin {NULL, JSON_FALSE, JSON_EMPTY_LIST}

\* the body of `for json_key, db_key in CARD_FIELD_MAPPING.items()`
ProcessedValue(card, json_key) ==
    LET value == CardGet(card, json_key)
        dumped == IF json_key \in JSON_FIELDS /\ value # NULL
                  THEN JsonDumps(value) ELSE value
    IN  IF json_key = "isReprint"
        THEN (IF Truthy(dumped) THEN "1" ELSE "0")
        ELSE dumped

\* processed_card.get(db_key)
ProcessedGet(card, db_key) ==
    IF \E i \in 1..Len(CARD_FIELD_MAPPING) : CARD_FIELD_MAPPING[i][2] = db_key
    THEN LET i == CHOOSE i \in 1..Len(CARD_FIELD_MAPPING) : CARD_FIELD_MAPPING[i][2] = db_key
         IN  ProcessedValue(card, CARD_FIELD_MAPPING[i][1])
    ELSE NULL

\* prepare_card_data(card, set_code, set_name, collection_name); the integers
\* 1 and 0 of is_reprint are written "1" and "0"
prepare_card_data(card, set_code, set_name, collection_name) ==
    [i \in 1..Len(CardDataTuple) |->
        CASE CardDataTuple[i] = "<set_code>" -> set_code
          [] CardDataTuple[i] = "<set_name>" -> set_name
          [] CardDataTuple[i] = "<collection_name>" -> collection_name
          [] OTHER -> ProcessedGet(card, CardDataTuple[i])]

\* prepare_card_data(card, set_code, set_name, collection_name)
PrepareCardData ==
    /\ call.fn = "none"
    /\ \E card \in CardObjects, collection_name \in {NULL, "coll"} :
          call' = [fn |-> "prepare_card_data",
                   arg |-> [card |-> card, set_code |-> "SET", set_name |-> "Set",
                            collection_name |-> collection_name],
                   result |-> prepare_card_data(card, "SET", "Set", collection_name),
                   raised |-> "none"]
    /\ FunctionFrame

(***************************************************************************)
(* Claims about the normalizer                                             *)
(***************************************************************************)
\* the JSON key that CARD_FIELD_MAPPING maps to a column
JsonKeyOf(column) ==
    CARD_FIELD_MAPPING[CHOOSE i \in 1..Len(CARD_FIELD_MAPPING) :
                          CARD_FIELD_MAPPING[i][2] = column][1]

\* the place of a column in the cards table
ColumnPlace(column) == CHOOSE i \in 1..Len(CardsColumns) : CardsColumns[i] = column

\* C23: normalizer mapping: prepare_card_data returns a tuple with one slot
\* per column of cards, in the columns' order (31 of them), set code, set
\* name and collection name in the third to fifth slot (slots 2-4 counted
\* from 0); the is_reprint slot is 1 for isReprint true and 0 for absent,
\* false or null; an optional field that is absent gives null; a structured
\* field is serialized when present and not null, and null otherwise
C23_NormalizerMapping ==
    call.fn = "prepare_card_data" =>
        LET t == call.result
            card == call.arg.card
        IN  /\ Len(t) = Len(CardsColumns)
            /\ Len(CARD_FIELD_MAPPING) + 3 = Len(CardsColumns)
            /\ ColumnPlace("set_code") = 3 /\ t[3] = call.arg.set_code
            /\ ColumnPlace("set_name") = 4 /\ t[4] = call.arg.set_name
            /\ ColumnPlace("collection_name") = 5 /\ t[5] = call.arg.collection_name
            /\ \A i \in 1..Len(CardsColumns) \ {3, 4, 5} :
                  LET json_key == JsonKeyOf(CardsColumns[i])
                      v == card[json_key]
                  IN  IF CardsColumns[i] = "is_reprint"
                      THEN t[i] = (IF v = JSON_TRUE THEN "1" ELSE "0")
                      ELSE IF v \in {ABSENT, NULL} THEN t[i] = NULL
                      ELSE IF json_key \in JSON_FIELDS
                      THEN t[i] = JsonDumps(v) /\ t[i] # v
                      ELSE t[i] = v

\* a card with isReprint false and an empty list of colors, in a collection:
\* is_reprint is 0 and colors is the serialized list, not null
C23_Witness ==
    /\ call.fn = "prepare_card_data"
    /\ call.arg.card["isReprint"] = JSON_FALSE
    /\ call.arg.card["colors"] = JSON_EMPTY_LIST
    /\ call.arg.collection_name = "coll"
    /\ call.result[ColumnPlace("is_reprint")] = "0"
    /\ call.result[ColumnPlace("colors")] = JsonDumps(JSON_EMPTY_LIST)
    /\ call.result[1] = NULL


(***************************************************************************)
(* card_processing.process_set_cards                                       *)
(***************************************************************************)
\* ---- bound: cards of a set object
MaxSetCards == 3

\* a named card object
NamedCard(uuid, name) == [EmptyCard EXCEPT !["uuid"] = uuid, !["name"] = name]

\* the elements of a set's "cards" list: card objects (one without uuid and
\* name), an object holding a value json.dumps rejects (a Python set, from a
\* caller that built the object), and JSON values that are not objects
SetItems ==
    { [kind |-> "object", card |-> c] :
        c \in { NamedCard("u1", "A"), NamedCard("u2", "B"), EmptyCard } }
    \cup { [kind |-> "unserializable", card |-> NamedCard("u3", "C")],
           [kind |-> "string", card |-> EmptyCard],
           [kind |-> "null", card |-> EmptyCard] }

\* set objects: "cards" absent, or a list of at most MaxSetCards elements
SetObjects ==
    { [has_cards |-> FALSE, cards |-> <<>>] }
    \cup { [has_cards |-> TRUE, cards |-> cs] : cs \in SeqsUpTo(SetItems, MaxSetCards) }

\* what prepare_card_data raises for an element: card.get needs a mapping,
\* json.dumps a serializable value
PrepareRaises(item) ==
    CASE item.kind = "object" -> "none"
      [] item.kind = "unserializable" -> "TypeError"
      [] OTHER -> "AttributeError"

\* what the except clause raises: its message calls card.get('name', 'Unknown')
HandlerRaises(item) ==
    IF item.kind \in {"object", "unserializable"} THEN "none" ELSE "AttributeError"

RECURSIVE SetLoop(_, _, _)
\* for card in cards: try prepare_card_data and append; except Exception: log
\* and continue
SetLoop(cards, collection_name, card_data_list) ==
    IF cards = <<>> THEN [result |-> card_data_list, raised |-> "none"]
    ELSE LET item == Head(cards)
         IN  IF PrepareRaises(item) = "none"
             THEN SetLoop(Tail(cards), collection_name,
                          Append(card_data_list,
                                 prepare_card_data(item.card, "SET", "Set", collection_name)))
             ELSE IF HandlerRaises(item) = "none"
             THEN SetLoop(Tail(cards), collection_name, card_data_list)
             ELSE [result |-> "none", raised |-> HandlerRaises(item)]

\* process_set_cards(set_data, collection_name): cards = set_data.get("cards", [])
process_set_cards(set_data, collection_name) ==
    SetLoop(IF set_data.has_cards THEN set_data.cards ELSE <<>>, collection_name, <<>>)

\* process_set_cards(set_data)
ProcessSetCards ==
    /\ call.fn = "none"
    /\ \E set_data \in SetObjects :
          call' = [fn |-> "process_set_cards", arg |-> set_data,
                   result |-> process_set_cards(set_data, NULL).result,
                   raised |-> process_set_cards(set_data, NULL).raised]
    /\ FunctionFrame

\* the cards of a list that normalize without error, in the list's order
Normalizable(cards) == SelectSeq2(cards, LAMBDA item : PrepareRaises(item) = "none")

\* C24: normalization failure isolation: process_set_cards returns, in source
\* order, one tuple for each card of the set that normalizes without error; a
\* malformed card object of any shape is skipped, nothing is raised out of
\* process_set_cards and no other card is dropped; a set without a cards list
\* or with an empty one gives the empty list
C24_NormalizationIsolation ==
    call.fn = "process_set_cards" =>
        LET cards == IF call.arg.has_cards THEN call.arg.cards ELSE <<>>
            good == Normalizable(cards)
        IN  /\ call.raised = "none"
            /\ Len(call.result) = Len(good)
            /\ \A i \in 1..Len(good) :
                  call.result[i] = prepare_card_data(good[i].card, "SET", "Set", NULL)


(***************************************************************************)
(* scripts/process_cards.py: the ingestion of set files, from the set       *)
(* object to the rows of cards                                             *)
(***************************************************************************)
\* the required fields of validate_card_data
RequiredFields == {"uuid", "name"}

\* validate_card_data(card)
validate_card_data(card) ==
    \A field \in RequiredFields : ~(card[field] = ABSENT \/ card[field] = NULL)

\* the card objects of the set files: complete ones, and ones whose uuid or
\* name is absent or null
IngestedCards ==
    { NamedCard("u1", "A"), NamedCard("u2", "B"),
      [EmptyCard EXCEPT !["name"] = "C"], NamedCard(NULL, "D"),
      [EmptyCard EXCEPT !["uuid"] = "u2"], NamedCard("u1", NULL) }

IngestedSets ==
    { [has_cards |-> TRUE, cards |-> cs] :
        cs \in SeqsUpTo({ [kind |-> "object", card |-> c] : c \in IngestedCards },
                        MaxScriptBatch) }

\* a tuple of prepare_card_data in the columns CARDS_TABLE_SCHEMA keeps here
SchemaColumns(card_data) ==
    [i \in 1..Len(CARDS_TABLE_SCHEMA) |-> card_data[ColumnPlace(CARDS_TABLE_SCHEMA[i].name)]]

\* import_cards for one file: process_set_cards, then, if the list is
\* not empty, batch_insert_cards on the script's connection
import_cards(db, set_data) ==
    LET cards_data == process_set_cards(set_data, NULL).result
        tuples == [i \in 1..Len(cards_data) |-> SchemaColumns(cards_data[i])]
    IN  IF tuples = <<>> THEN db
        ELSE [db EXCEPT !.cards =
                 batch_insert_cards(db.cards, db.cards, db.cols, tuples,
                                    DEFAULT_BATCH_SIZE).committed]

\* the script process_cards ingests a set file
ImportCards ==
    /\ dbOp = NoDbOp
    /\ cardsCols = CARDS_TABLE_SCHEMA
    /\ \E set_data \in IngestedSets :
          LET db == import_cards(CurrentDb, set_data)
          IN  /\ Len(db.cards) <= MaxRows
              /\ StoreDb(db)
              /\ dbOp' = [op |-> "import_cards", args |-> <<set_data>>,
                          result |-> "none", raised |-> "none",
                          statements |-> <<>>, before |-> CurrentDb]
    /\ UNCHANGED <<lastOp, poolVars, rt, aw, call, transaction, batchVars>>

NextIngest ==
    \/ ImportCards
    \/ DbReturn

SpecIngest == Init /\ [][NextIngest]_vars

\* C25: required-field check: validate_card_data returns False for a card
\* object whose uuid or name is absent or null and True for every other; and
\* the ingestion drops the cards it rejects, so that after any sequence of
\* ingestions no row of cards has a null uuid or a null name
C25_RequiredFields ==
    /\ \A c \in IngestedCards :
          validate_card_data(c) <=> (c["uuid"] \notin {ABSENT, NULL}
                                      /\ c["name"] \notin {ABSENT, NULL})
    /\ \A i \in 1..Len(dbCards) : dbCards[i][1] # NULL /\ dbCards[i][2] # NULL


(***************************************************************************)
(* mtg_utils/io_operations.py: read_card_list.  A line is a sequence of    *)
(* characters, a file that could be decoded the sequence of its lines      *)
(* (splitlines).                                                           *)
(***************************************************************************)
\* the most lines of a card list file
MaxLines == 2

TAB == "\t"

\* the characters str.strip() removes and \s matches
Whitespace == {" ", TAB}

\* the characters \d matches, with their values
DigitValue ==
    [c \in {"0", "1", "2", "3", "4", "5", "6", "7", "8", "9"} |->
        CASE c = "0" -> 0 [] c = "1" -> 1 [] c = "2" -> 2 [] c = "3" -> 3
          [] c = "4" -> 4 [] c = "5" -> 5 [] c = "6" -> 6 [] c = "7" -> 7
          [] c = "8" -> 8 [] c = "9" -> 9]

\* str.lower() on the letters of the lines
UpperToLower ==
    [c \in {"A", "B", "C", "D", "E", "I", "K", "L", "M", "O", "R", "S", "U"} |->
        CASE c = "A" -> "a" [] c = "B" -> "b" [] c = "C" -> "c" [] c = "D" -> "d"
          [] c = "E" -> "e" [] c = "I" -> "i" [] c = "K" -> "k" [] c = "L" -> "l"
          [] c = "M" -> "m" [] c = "O" -> "o" [] c = "R" -> "r" [] c = "S" -> "s"
          [] c = "U" -> "u"]

\* the mutated form of LowerCase: the line as it is
SameCase(line) == line

LowerCase(line) ==
    [i \in 1..Len(line) |->
        IF line[i] \in DOMAIN UpperToLower THEN UpperToLower[line[i]] ELSE line[i]]

RECURSIVE LStrip(_)
LStrip(s) ==
    IF s # <<>> /\ s[1] \in Whitespace THEN LStrip(Tail(s)) ELSE s

RECURSIVE RStrip(_)
RStrip(s) ==
    IF s # <<>> /\ s[Len(s)] \in Whitespace THEN RStrip(SubSeq(s, 1, Len(s) - 1)) ELSE s

\* str.strip()
Strip(s) == RStrip(LStrip(s))

\* str.startswith(prefix)
StartsWith(s, prefix) ==
    Len(s) >= Len(prefix) /\ SubSeq(s, 1, Len(prefix)) = prefix

\* the length of the longest run of digits a line starts with: what (\d+)
\* takes, since the character that follows it in both patterns is no digit
RECURSIVE DigitRun(_)
DigitRun(s) ==
    IF s # <<>> /\ s[1] \in DOMAIN DigitValue THEN 1 + DigitRun(Tail(s)) ELSE 0

\* int(digits)
RECURSIVE IntOf(_)
IntOf(digits) ==
    IF digits = <<>> THEN 0
    ELSE 10 * IntOf(SubSeq(digits, 1, Len(digits) - 1)) + DigitValue[digits[Len(digits)]]

NoMatch == [matched |-> FALSE, quantity |-> <<>>, rest |-> <<>>]

\* the mutated form of mtgs_match: the pattern never matches
MtgsNeverMatches(line) == NoMatch

\* re.match(r"^(\d+)x\t(.+)$", line)
mtgs_match(line) ==
    LET k == DigitRun(line)
    IN  IF k >= 1 /\ Len(line) >= k + 3 /\ line[k + 1] = "x" /\ line[k + 2] = TAB
        THEN [matched |-> TRUE, quantity |-> SubSeq(line, 1, k),
              rest |-> SubSeq(line, k + 3, Len(line))]
        ELSE NoMatch

\* re.match(r"^(\d+)\s+(.+)$", line): \s+ takes the whole run of whitespace
\* and gives its last character back when nothing follows it; rest is the
\* line after the first whitespace character, which has the same strip()
match(line) ==
    LET k == DigitRun(line)
    IN  IF k >= 1 /\ Len(line) >= k + 2 /\ line[k + 1] \in Whitespace
        THEN [matched |-> TRUE, quantity |-> SubSeq(line, 1, k),
              rest |-> SubSeq(line, k + 2, Len(line))]
        ELSE NoMatch

\* the mutated form of RemoveAnnotation: the card part as it is
KeepAnnotation(card_part) == Strip(card_part)

\* re.sub(r"^\[[^\]]*\]\s*", "", card_part).strip()
RemoveAnnotation(card_part) ==
    LET brackets == { j \in 1..Len(card_part) : card_part[j] = "]" }
    IN  IF card_part # <<>> /\ card_part[1] = "[" /\ brackets # {}
        THEN LET j == CHOOSE j \in brackets : \A m \in brackets : j <= m
             IN  Strip(SubSeq(card_part, j + 1, Len(card_part)))
        ELSE Strip(card_part)

\* the mutated form of Copies: a quantity of 0 counts as 1
AtLeastOneCopy(card_name, quantity) ==
    [i \in 1..(IF quantity = 0 THEN 1 ELSE quantity) |-> card_name]

\* for _ in range(quantity): card_names.append(card_name)
Copies(card_name, quantity) == [i \in 1..quantity |-> card_name]

DECK_TAG == <<"[", "D", "E", "C", "K", "]">>
DECK_END_TAG == <<"[", "/", "D", "E", "C", "K", "]">>
URL_TAG == <<"[", "U", "R", "L", "=">>
URL_END_TAG == <<"[", "/", "U", "R", "L", "]">>
SIDEBOARD == <<"s", "i", "d", "e", "b", "o", "a", "r", "d">>
SB_PREFIX == <<"S", "B", ":">>
COMMENT == <<"/", "/">>

\* the body of the loop over the lines: the names one line appends
LineNames(raw) ==
    LET line == Strip(raw)
    IN  IF line = <<>> \/ StartsWith(line, COMMENT) THEN <<>>
        ELSE IF line = DECK_TAG \/ line = DECK_END_TAG THEN <<>>
        ELSE IF StartsWith(line, URL_TAG) \/ StartsWith(line, URL_END_TAG) THEN <<>>
        ELSE IF LowerCase(line) = SIDEBOARD THEN <<>>
        ELSE LET entry == IF StartsWith(line, SB_PREFIX)
                          THEN Strip(SubSeq(line, 4, Len(line))) ELSE line
                 mtgs == mtgs_match(entry)
                 std == match(entry)
             IN  IF mtgs.matched THEN Copies(Strip(mtgs.rest), IntOf(mtgs.quantity))
                 ELSE IF std.matched
                      THEN Copies(RemoveAnnotation(Strip(std.rest)), IntOf(std.quantity))
                 ELSE IF entry # <<>> THEN <<entry>>
                 ELSE <<>>

RECURSIVE CardNamesOf(_)
CardNamesOf(lines) ==
    IF lines = <<>> THEN <<>>
    ELSE LineNames(Head(lines)) \o CardNamesOf(Tail(lines))

\* read_card_list(file_path), for a file that is absent or holds lines
read_card_list(file) ==
    IF ~file.exists
    THEN [result |-> <<>>, raised |-> "FileNotFoundError"]
    ELSE [result |-> CardNamesOf(file.lines), raised |-> "none"]

\* the quantities of the lines: their digits and the number they denote
Quantities ==
    { [digits |-> <<"0">>, number |-> 0], [digits |-> <<"2">>, number |-> 2],
      [digits |-> <<"1", "0">>, number |-> 10] }

\* card names: one letter, two words, a name that starts with the letter of
\* the multiplier suffix
CardNames == { <<"A">>, <<"A", " ", "b">>, <<"x", "A">> }

\* set annotations
Annotations == { <<"[", "M", "]">>, <<"[", "]">> }

\* a form is a line with the names the formats of the card lists give it
PlainForms == { [line |-> n, names |-> <<n>>] : n \in CardNames }

QuantityForms ==
    { [line |-> q.digits \o <<" ">> \o n, names |-> [i \in 1..q.number |-> n]] :
        q \in Quantities, n \in CardNames }

MultiplierForms ==
    { [line |-> q.digits \o <<"x", TAB>> \o n, names |-> [i \in 1..q.number |-> n]] :
        q \in Quantities, n \in CardNames }

AnnotatedForms ==
    { [line |-> q.digits \o <<" ">> \o a \o s \o <<"A">>,
       names |-> [i \in 1..q.number |-> <<"A">>]] :
        q \in { p \in Quantities : p.number <= 2 }, a \in Annotations,
        s \in { <<>>, <<" ">> } }
    \cup { [line |-> <<"2", " ", "[", "M", "]", " ", "A", " ", "b">>,
            names |-> <<<<"A", " ", "b">>, <<"A", " ", "b">>>>] }

SkippedLines ==
    { <<>>, <<" ">>, <<"/", "/", "A">>, <<"/", "/", "2", " ", "A">>,
      SIDEBOARD, <<"S", "i", "d", "e", "b", "o", "a", "r", "d">>,
      <<"S", "I", "D", "E", "B", "O", "A", "R", "D">>,
      DECK_TAG, DECK_END_TAG, URL_TAG \o <<"A", "]">>, URL_END_TAG }

SkippedForms == { [line |-> l, names |-> <<>>] : l \in SkippedLines }

\* sideboard entries of the DEK format: the prefix, then a card line
SideboardForms ==
    { [line |-> SB_PREFIX \o s \o f.line, names |-> f.names] :
        s \in { <<>>, <<" ">> },
        f \in { g \in PlainForms \cup QuantityForms \cup MultiplierForms \cup AnnotatedForms :
                  g.line \in { <<"A">>, <<"2", " ", "A">>, <<"2", "x", TAB, "A">>,
                               <<"2", " ", "[", "M", "]", " ", "A">> } } }

\* other lines: padded with whitespace, a tab after the quantity, a suffix
\* without the tab, a quantity alone, an annotation without a quantity, an
\* annotation after the multiplier, tags in another case, a quantity with an
\* annotation and no name
OtherLines ==
    { <<" ", "2", " ", "A", " ">>, <<"2", TAB, "A">>, <<"2", "x", "A">>,
      <<"2", "x", " ", "A">>, <<"2">>, <<"[", "M", "]", " ", "A">>,
      <<"2", "x", TAB, "[", "M", "]", " ", "A">>, <<"[", "d", "e", "c", "k", "]">>,
      <<"2", " ", "[", "M", "]">> }

DeckLines ==
    { f.line : f \in PlainForms \cup QuantityForms \cup MultiplierForms
                       \cup AnnotatedForms \cup SkippedForms \cup SideboardForms }
    \cup OtherLines

\* the card list files: an absent one, and those of up to MaxLines lines
CardListFiles ==
    { [exists |-> FALSE, lines |-> <<>>] }
    \cup { [exists |-> TRUE, lines |-> ls] : ls \in SeqsUpTo(DeckLines, MaxLines) }

ReadCardList ==
    /\ call.fn = "none"
    /\ \E file \in CardListFiles :
          call' = [fn |-> "read_card_list", arg |-> file,
                   result |-> read_card_list(file).result,
                   raised |-> read_card_list(file).raised]
    /\ FunctionFrame

\* the names the forms give a file all of whose lines are lines of forms
RECURSIVE NamesByForms(_, _)
NamesByForms(lines, forms) ==
    IF lines = <<>> THEN <<>>
    ELSE (CHOOSE f \in forms : f.line = Head(lines)).names
         \o NamesByForms(Tail(lines), forms)

Returned(forms) ==
    /\ call.fn = "read_card_list"
    /\ call.arg.exists
    /\ \A i \in 1..Len(call.arg.lines) : \E f \in forms : f.line = call.arg.lines[i]

Holds(forms) ==
    \E i \in 1..Len(call.arg.lines) : \E f \in forms : f.line = call.arg.lines[i]

\* C26: deck-list quantity expansion: for a file of quantity lines "<N> <name>",
\* plain lines and skipped lines, read_card_list returns, in the order of the
\* lines, N copies of the name for a quantity line (none when N = 0) and the
\* name once for a plain line; its length is the sum of the quantities plus
\* the number of plain lines
C26_QuantityExpansion ==
    Returned(QuantityForms \cup PlainForms \cup SkippedForms) =>
        /\ call.result
             = NamesByForms(call.arg.lines, QuantityForms \cup PlainForms \cup SkippedForms)
        /\ Len(call.result)
             = LET count[i \in 0..Len(call.arg.lines)] ==
                       IF i = 0 THEN 0
                       ELSE count[i - 1]
                            + (IF \E f \in PlainForms : f.line = call.arg.lines[i] THEN 1
                               ELSE IF \E q \in Quantities, n \in CardNames :
                                          call.arg.lines[i] = q.digits \o <<" ">> \o n
                                    THEN (CHOOSE q \in Quantities : \E n \in CardNames :
                                            call.arg.lines[i] = q.digits \o <<" ">> \o n).number
                               ELSE 0)
               IN  count[Len(call.arg.lines)]

\* a file with a quantity of 0, then a quantity of 2, has been read
C26_Witness ==
    /\ Returned(QuantityForms)
    /\ call.arg.lines = <<<<"0", " ", "A">>, <<"2", " ", "x", "A">>>>
    /\ call.result = <<<<"x", "A">>, <<"x", "A">>>>


\* the lines with line i replaced
WithLine(lines, i, line) == [lines EXCEPT ![i] = line]

\* C27: multiplier-suffix equivalence: for every quantity N and card name, a
\* file with the line "<N>x<TAB><name>" is read to the same names as the file
\* with the line "<N> <name>" in its place
C27_MultiplierSuffix ==
    (call.fn = "read_card_list" /\ call.arg.exists) =>
        \A i \in 1..Len(call.arg.lines) : \A q \in Quantities, n \in CardNames :
            call.arg.lines[i] = q.digits \o <<"x", TAB>> \o n =>
                call.result
                  = read_card_list([call.arg EXCEPT !.lines =
                        WithLine(call.arg.lines, i, q.digits \o <<" ">> \o n)]).result

\* a file with a multiplier line for two copies of a name has been read
C27_Witness ==
    /\ call.fn = "read_card_list"
    /\ call.arg.lines = <<<<"A">>, <<"2", "x", TAB, "x", "A">>>>
    /\ call.result = <<<<"A">>, <<"x", "A">>, <<"x", "A">>>>

\* the characters of the set annotations
Brackets == {"[", "]"}

\* C28: set-annotation stripping: in a file of quantity lines, with a bracketed
\* annotation after the quantity ("<N> [XXX] <name>", "<N> [] <name>") or
\* without one, an annotated line gives N copies of the name, and no name read
\* holds a bracket
C28_AnnotationStripped ==
    (Returned(AnnotatedForms \cup QuantityForms) /\ Holds(AnnotatedForms)) =>
        /\ call.result = NamesByForms(call.arg.lines, AnnotatedForms \cup QuantityForms)
        /\ \A i \in 1..Len(call.result) : \A j \in 1..Len(call.result[i]) :
              call.result[i][j] \notin Brackets

\* a file with an annotated line and a line with the empty annotation has been
\* read
C28_Witness ==
    /\ Returned(AnnotatedForms)
    /\ call.arg.lines = <<<<"2", " ", "[", "M", "]", " ", "A", " ", "b">>,
                          <<"2", " ", "[", "]", "A">>>>
    /\ call.result = <<<<"A", " ", "b">>, <<"A", " ", "b">>, <<"A">>, <<"A">>>>

\* C29: deck-list skip rules: a blank line, a line starting with "//", the
\* line "sideboard" in any letter case, "[DECK]", "[/DECK]" and the lines
\* starting with "[URL=" or "[/URL]" give no name; a line starting with "SB:"
\* gives the names of the card line after the prefix; and the card lines after
\* a sideboard marker give their names like those before it
C29_SkipRules ==
    (Returned(SkippedForms \cup SideboardForms \cup QuantityForms \cup PlainForms)
       /\ Holds(SkippedForms \cup SideboardForms)) =>
        call.result = NamesByForms(call.arg.lines,
                          SkippedForms \cup SideboardForms \cup QuantityForms \cup PlainForms)

\* a file with a sideboard marker, then a sideboard entry, has been read
C29_Witness ==
    /\ Returned(SkippedForms \cup SideboardForms)
    /\ call.arg.lines = <<<<"S", "i", "d", "e", "b", "o", "a", "r", "d">>,
                          <<"S", "B", ":", " ", "2", " ", "A">>>>
    /\ call.result = <<<<"A">>, <<"A">>>>


(***************************************************************************)
(* mtg_cli.py: the exit status of the subcommand handlers.  A run is what  *)
(* the handler meets: the files that exist, the call that raises, the rows *)
(* the query gives.                                                        *)
(***************************************************************************)
\* the steps of setup_command that can raise
SetupSteps ==
    {"none", "download_all_data", "unzip_single_file", "create_database",
     "read_json_file", "process_batches", "executemany", "verify_database"}

SetupRuns == [raised : SetupSteps, cards_data : { <<>>, <<Card("u1", "A", "t")>> }]

\* setup_command: 1 from the except clause and when no card data is found
setup_command(run) ==
    IF run.raised \in {"download_all_data", "unzip_single_file", "create_database",
                       "read_json_file"} THEN 1
    ELSE IF run.cards_data = <<>> THEN 1
    ELSE IF run.raised # "none" THEN 1
    ELSE 0

UpdateRuns == [db_exists : BOOLEAN, failAt : FailurePoints, cards_data : UpdateCards]

\* update_command with its check that the database exists
update_command_status(run) ==
    IF ~run.db_exists THEN 1
    ELSE update_command(Snapshot(<<>>, CARDS_TABLE_SCHEMA, TRUE, <<>>), run.cards_data,
                        <<[uuid |-> "u2", data |-> PriceObject(Len(PathKeys), FALSE, <<"2">>)]>>,
                        "d1", run.failAt, 0).result

\* the rows of the export queries: name and price
ExportResults == { <<>>, <<[name |-> "A", price |-> 0]>>, <<[name |-> "A", price |-> 3]>> }

QueryErrors == {"none", "sqlite3.Error", "MTGProcessingError"}

ExportTopRuns == [db_exists : BOOLEAN, raised : QueryErrors, results : ExportResults]

\* export_top_command
export_top_command(run) ==
    IF ~run.db_exists THEN 1
    ELSE IF run.raised # "none" THEN 1
    ELSE IF run.results = <<>> THEN 1
    ELSE 0

\* the card lists of export-list: absent, without a name, with names
ExportListFiles ==
    { [exists |-> FALSE, lines |-> <<>>], [exists |-> TRUE, lines |-> <<>>],
      [exists |-> TRUE, lines |-> <<<<"/", "/", "A">>, <<"0", " ", "A">>>>],
      [exists |-> TRUE, lines |-> <<<<"2", " ", "A">>>>] }

ExportListRuns ==
    [input_path : {"ok", "OSError"}, db_exists : BOOLEAN, file : ExportListFiles,
     output_path : {"none", "ok", "OSError"}, raised : QueryErrors,
     results : ExportResults]

\* calculate_collection_stats: min() of the prices above 0 raises ValueError
\* when there are rows and none has a price above 0
SummaryRaises(rows) ==
    rows # <<>> /\ \A i \in 1..Len(rows) : rows[i].price = 0

\* the mutated form of ExportListAfterQuery: an empty result is a failure
ExportListEmptyFails(run) ==
    IF run.results = <<>> \/ SummaryRaises(run.results) THEN 1 ELSE 0

\* export_list_command after the query: export_to_csv returns without a file
\* when there are no rows, and the handler goes on to return 0
ExportListAfterQuery(run) ==
    IF SummaryRaises(run.results) THEN 1 ELSE 0

\* export_list_command
export_list_command(run) ==
    IF run.input_path # "ok" THEN 1
    ELSE IF ~run.db_exists THEN 1
    ELSE IF ~run.file.exists THEN 1
    ELSE IF run.output_path = "OSError" THEN 1
    ELSE IF read_card_list(run.file).raised # "none" THEN 1
    ELSE IF read_card_list(run.file).result = <<>> THEN 1
    ELSE IF run.raised # "none" THEN 1
    ELSE ExportListAfterQuery(run)

CliFrame == UNCHANGED <<dbVars, poolVars, rt, batchVars, aw, transaction>>

HandlerReturns(fn, run, status) ==
    call' = [fn |-> fn, arg |-> run, result |-> status, raised |-> "none"]

SetupCommand ==
    /\ call.fn = "none"
    /\ \E run \in SetupRuns : HandlerReturns("setup_command", run, setup_command(run))
    /\ CliFrame

UpdateCommandStatus ==
    /\ call.fn = "none"
    /\ \E run \in UpdateRuns :
          HandlerReturns("update_command", run, update_command_status(run))
    /\ CliFrame

ExportTopCommand ==
    /\ call.fn = "none"
    /\ \E run \in ExportTopRuns :
          HandlerReturns("export_top_command", run, export_top_command(run))
    /\ CliFrame

ExportListCommand ==
    /\ call.fn = "none"
    /\ \E run \in ExportListRuns :
          HandlerReturns("export_list_command", run, export_list_command(run))
    /\ CliFrame

\* main() has taken the status of the handler
HandlerDone ==
    /\ call.fn # "none"
    /\ call' = NoCall
    /\ CliFrame

NextCli ==
    \/ SetupCommand
    \/ UpdateCommandStatus
    \/ ExportTopCommand
    \/ ExportListCommand
    \/ HandlerDone

SpecCli == Init /\ [][NextCli]_vars

\* a call of the update raises: the reload of the prices is reached only when
\* a price of the dump is for a card of the database
UpdateRaises(run) ==
    /\ run.failAt # "none"
    /\ run.failAt = "reload" => run.cards_data # <<>>

CliHandlers ==
    {"setup_command", "update_command", "export_top_command", "export_list_command"}

\* the failures of a run: the database is missing (update and the exports),
\* the input file is missing, the deck list gives no name, the query gives no
\* row, a call raises
HandledFailure ==
    \/ /\ call.fn \in {"update_command", "export_top_command", "export_list_command"}
       /\ ~call.arg.db_exists
    \/ /\ call.fn = "export_list_command"
       /\ \/ ~call.arg.file.exists
          \/ read_card_list(call.arg.file).result = <<>>
          \/ call.arg.input_path # "ok"
          \/ call.arg.output_path = "OSError"
    \/ /\ call.fn \in {"export_top_command", "export_list_command"}
       /\ call.arg.results = <<>>
    \/ /\ call.fn \in {"setup_command", "export_top_command", "export_list_command"}
       /\ call.arg.raised # "none"
    \/ /\ call.fn = "update_command"
       /\ UpdateRaises(call.arg)

\* C30: CLI exit status: each of the handlers setup, update, export-top and
\* export-list returns 0 or 1, and returns 1 on every handled failure (a
\* missing database, a missing input file, a deck list without names, an
\* empty query result, an exception); so it returns 0 only after a run
\* without any of them
C30_ExitStatus ==
    call.fn \in CliHandlers =>
        /\ call.result \in {0, 1}
        /\ HandledFailure => call.result = 1


\* C38: read_card_list never emits an empty card name: every name it returns
\* has at least one character and neither starts nor ends with whitespace,
\* also for a quantity line that carries only a bracketed annotation
C38_NoEmptyName ==
    (call.fn = "read_card_list" /\ call.arg.exists) =>
        \A i \in 1..Len(call.result) :
            /\ call.result[i] # <<>>
            /\ call.result[i] = Strip(call.result[i])


(***************************************************************************)
(* performance.py: the split of the data into batches, in process_batches  *)
(* and in chunked                                                          *)
(***************************************************************************)
\* the longest list split, and the largest batch size
MaxData == 4
MaxChunk == 3

\* the mutated form of Slice: the slice without its first element
SliceFromNext(s, lo, hi) ==
    IF lo + 1 >= Len(s) \/ hi <= lo + 1 THEN <<>>
    ELSE SubSeq(s, lo + 2, IF hi < Len(s) THEN hi ELSE Len(s))

\* s[lo:hi] for 0 <= lo <= hi: the end is cut at len(s)
Slice(s, lo, hi) ==
    IF lo >= Len(s) \/ hi <= lo THEN <<>>
    ELSE SubSeq(s, lo + 1, IF hi < Len(s) THEN hi ELSE Len(s))

\* range(0, stop, step) for step >= 1, as the sequence of its values
RECURSIVE RangeFrom(_, _, _)
RangeFrom(start, stop, step) ==
    IF start >= stop THEN <<>>
    ELSE <<start>> \o RangeFrom(start + step, stop, step)

\* chunked(iterable, chunk_size), and the list of batches of process_batches:
\* range() raises ValueError for a step of 0
chunked(iterable, chunk_size) ==
    IF chunk_size = 0 THEN [result |-> <<>>, raised |-> "ValueError"]
    ELSE LET starts == RangeFrom(0, Len(iterable), chunk_size)
         IN  [result |-> [k \in 1..Len(starts) |->
                            Slice(iterable, starts[k], starts[k] + chunk_size)],
              raised |-> "none"]

\* the lists that are split
DataLists == SeqsUpTo({"a", "b"}, MaxData)

Chunked ==
    /\ call.fn = "none"
    /\ \E iterable \in DataLists, chunk_size \in 0..MaxChunk :
          call' = [fn |-> "chunked", arg |-> <<iterable, chunk_size>>,
                   result |-> chunked(iterable, chunk_size).result,
                   raised |-> chunked(iterable, chunk_size).raised]
    /\ FunctionFrame

\* process_batches up to its list of batches
SplitIntoBatches ==
    /\ call.fn = "none"
    /\ \E data \in DataLists, size \in 0..MaxChunk :
          call' = [fn |-> "process_batches.batches", arg |-> <<data, size>>,
                   result |-> chunked(data, size).result,
                   raised |-> chunked(data, size).raised]
    /\ FunctionFrame

RECURSIVE Joined(_)
Joined(lists) == IF lists = <<>> THEN <<>> ELSE Head(lists) \o Joined(Tail(lists))

\* C32: partitioning: for a list of length L and a batch size b >= 1,
\* process_batches and chunked split the list into ceil(L / b) batches, each
\* of at most b records and all but the last of exactly b, whose
\* concatenation in order is the list
C32_Partitioning ==
    (call.fn \in {"chunked", "process_batches.batches"} /\ call.arg[2] >= 1) =>
        LET data == call.arg[1]
            b == call.arg[2]
            batches == call.result
        IN  /\ call.raised = "none"
            /\ Len(batches) = (Len(data) + b - 1) \div b
            /\ \A k \in 1..Len(batches) : Len(batches[k]) >= 1 /\ Len(batches[k]) <= b
            /\ \A k \in 1..(Len(batches) - 1) : Len(batches[k]) = b
            /\ Joined(batches) = data

\* a list of four with batches of three has been split: one full batch and a
\* short one
C32_Witness ==
    /\ call.fn = "process_batches.batches"
    /\ call.arg = <<<<"a", "b", "b", "a">>, 3>>
    /\ call.result = <<<<"a", "b", "b">>, <<"a">>>>

(***************************************************************************)
(* The specification of the functions without state                        *)
(***************************************************************************)
NextFunctions ==
    \/ CalculateAveragePrice
    \/ ExtractTcgplayerPrice
    \/ PrepareCardData
    \/ ProcessSetCards
    \/ ReadCardList
    \/ Chunked
    \/ SplitIntoBatches
    \/ CallReturns

SpecFunctions == Init /\ [][NextFunctions]_vars

====
